---- MODULE Spec2Model ----
(***************************************************************************)
(* A model of deepdft/dataset.py: the ordered grid-slice iterator          *)
(* (DensityGridIterator and grid_iterator_worker), the rotating pool       *)
(* (RotatingPoolData, rotating_pool_worker, transfer_thread), the graph    *)
(* builders (atoms_to_graph, probes_to_graph and the *_graph_dict          *)
(* functions) and the collator (collate_list_of_dicts).                    *)
(*                                                                         *)
(* Geometry.  Lengths are whole numbers of 1/Unit Angstrom, Unit being a   *)
(* common multiple of every grid extent in use, so that the grid points    *)
(* of _calculate_grid_pos, i/n of a cell vector, are exact.  Positions are *)
(* integer 3-vectors in that unit and cells are orthogonal (the lengths of *)
(* the three cell vectors are kept).  The neighbour-list libraries (asap3, *)
(* ase) are outside the repository: a neighbour query is modelled by its   *)
(* contract, the points at a distance below the cutoff, in increasing      *)
(* index order, for structures with no periodic image within the cutoff.   *)
(* An edge feature, the Euclidean distance sqrt(dist2) in the code, is     *)
(* carried as the integer dist2 (sqrt is injective, so equality of         *)
(* features is kept).                                                      *)
(***************************************************************************)
EXTENDS Integers, Sequences, FiniteSets, Bags, TLC

\* ------------------------------------------------------------ bounds
\* Largest extent of the grid along each of its three axes.
MaxDim == 2
\* Largest number of grid points of a sample the grid iterator runs over.
MaxGridPoints == 3
\* Largest probe_count (probes per slice) tried.
MaxProbeCount == 3
\* Largest x coordinate of an atom (atoms sit on the x axis).
MaxCoord == 1
\* Largest number of atoms of a structure.
MaxAtoms == 2
\* Twice the cutoff radius: 3 stands for the cutoff 1.5.
TwiceCutoff == 3
\* How many worker processes may die, of an exception or killed.
MaxKills == 1
\* How many times the caller may call __iter__ on an iterator.
MaxIters == 2
\* The iterations in which a worker process may die: the first MaxKillIters.
MaxKillIters == 1

\* Largest length of the dataset a rotating pool is built over.
MaxParentLen == 3
\* Largest pool_size of a rotating pool.
MaxPoolSize == 2
\* Largest number of probes a sample graph is built with.
MaxProbes == 2
\* Largest number of graphs collated into one batch.
MaxBatch == 2
\* the pushes of the loader process that a logged run of the pool follows
MaxPushes == 7

\* ------------------------------------------------------------ program constants
\* DensityGridIterator.__iter__ starts six worker processes.
NumWorkers == 6
\* multiprocessing.Queue(100): the capacity of the result channel.
ResultQueueMaxsize == 100

\* multiprocessing.Queue(2): the capacity of the loader queue.
LoaderQueueMaxsize == 2

\* ------------------------------------------------------------ helpers
Min(a, b) == IF a < b THEN a ELSE b

Max(a, b) == IF a > b THEN a ELSE b

\* (a variant of CeilDiv: the quotient rounded down)
FloorDiv(a, b) == a \div b

\* math.ceil(a / b) for a >= 0, b >= 1
CeilDiv(a, b) == IF a % b = 0 THEN a \div b ELSE (a \div b) + 1

\* np.arange(lo, hi): the sequence lo, lo+1, ..., hi-1 (empty when hi <= lo)
Arange(lo, hi) == [i \in 1..Max(0, hi - lo) |-> lo + i - 1]

RECURSIVE ConcatenateFrom(_, _)
\* The rows of arrays[i], arrays[i+1], ..., in order
ConcatenateFrom(arrays, i) ==
    IF i > Len(arrays) THEN <<>>
    ELSE arrays[i] \o ConcatenateFrom(arrays, i + 1)

\* The rows of a list of arrays, in order (np.concatenate(list, axis=0) of a
\* non-empty list).
Concatenate(arrays) == ConcatenateFrom(arrays, 1)

\* The elements of a finite set of integers in increasing order.
SeqOfSet(S) ==
    [i \in 1..Cardinality(S) |->
        CHOOSE x \in S : Cardinality({y \in S : y < x}) = i - 1]

\* ------------------------------------------------------------ geometry
RECURSIVE Gcd(_, _)
Gcd(a, b) == IF b = 0 THEN a ELSE Gcd(b, a % b)

RECURSIVE LcmUpTo(_)
\* The least common multiple of 1, ..., n
LcmUpTo(n) ==
    IF n <= 1 THEN 1
    ELSE LET l == LcmUpTo(n - 1) IN (l * n) \div Gcd(l, n)

\* The unit of length is 1/Unit Angstrom: every grid extent in use divides Unit
Unit == LcmUpTo(Max(MaxDim, MaxGridPoints))

\* x Angstrom in the unit of length
Angstrom(x) == x * Unit

Dist2(p, q) ==
    (p[1] - q[1]) * (p[1] - q[1]) + (p[2] - q[2]) * (p[2] - q[2])
    + (p[3] - q[3]) * (p[3] - q[3])

\* dist < cutoff.  A cutoff is carried as twice its value in Angstrom, a
\* whole number: 3 is the cutoff 1.5.
Within(p, q, cutoff) == 4 * Dist2(p, q) < Angstrom(cutoff) * Angstrom(cutoff)

\* dist < cutoff, with the cutoff TwiceCutoff / 2
WithinCutoff(p, q) == Within(p, q, TwiceCutoff)

\* np.prod(meshgrid.shape[0:3])
NumPositions(shape) == shape[1] * shape[2] * shape[3]

\* np.unravel_index(f, shape), row-major
UnravelIndex(f, shape) ==
    <<f \div (shape[2] * shape[3]), (f \div shape[3]) % shape[2], f % shape[3]>>

\* The origin of the samples' density grids
Origin == <<0, 0, 0>>

\* _calculate_grid_pos: grid point (i,j,k) of a density of the given shape is
\* at origin + i/nx of the first cell vector + j/ny of the second + k/nz of
\* the third.  This is grid_position[i,j,k] of a sample (line 115), which
\* static_get_slice and atoms_and_probe_sample_to_graph_dict index.
GridPosition(ijk, shape, cell_lengths, origin) ==
    [a \in 1..3 |-> origin[a] + (ijk[a] * cell_lengths[a]) \div shape[a]]

\* ------------------------------------------------------------ results of calls
\* A call either returns a value or raises.
Return(v) == [raised |-> "", value |-> v]

Raise(e) == [raised |-> e]

\* np.concatenate(list, axis=0): raises ValueError ("need at least one array to
\* concatenate") on an empty list.
NpConcatenate(arrays) ==
    IF arrays = <<>> THEN Raise("ValueError") ELSE Return(Concatenate(arrays))

\* ------------------------------------------------------------ tensors
\* A tensor is its shape and its data: a number for a 0-dimensional tensor,
\* the sequence of its rows otherwise (a row of a 1-dimensional tensor is a
\* number, a row of an (n, w) tensor is a w-tuple).
Scalar(v) == [shape |-> <<>>, data |-> v]

Vector(rows) == [shape |-> <<Len(rows)>>, data |-> rows]

Matrix(rows, w) == [shape |-> <<Len(rows), w>>, data |-> rows]

\* a[:, None] of a 1-dimensional array: one column
Column(values) == [i \in 1..Len(values) |-> <<values[i]>>]

\* ------------------------------------------------------------ structures
\* ase.Atoms: positions and atomic numbers per atom, the lengths of the three
\* cell vectors and the periodicity flags.  len(atoms) is Len(positions).
MakeAtoms(positions, numbers, cell_lengths, pbc) ==
    [positions |-> positions, numbers |-> numbers,
     cell_lengths |-> cell_lengths, pbc |-> pbc]

\* atoms_with_probes: atoms.copy() extended by ase.Atoms(numbers=[0]*num_probes,
\* positions=probe_pos)
AtomsWithProbes(atoms, probe_pos) ==
    [atoms EXCEPT !.positions = atoms.positions \o probe_pos,
                  !.numbers = atoms.numbers \o [i \in 1..Len(probe_pos) |-> 0]]

\* ------------------------------------------------------------ neighbour lists
\* The condition under which the code builds the ase wrapper instead of the
\* asap3 list.  Cell lengths are whole numbers of a unit above 0.0001
\* Angstrom, so "<= 0.0001" is "<= 0"; "length < cutoff" is "2 * length <
\* cutoff", the cutoff being carried doubled.
UseAseWrapper(atoms, cutoff) ==
    \/ \E a \in 1..3 : atoms.cell_lengths[a] <= 0
    \/ /\ \E a \in 1..3 : atoms.pbc[a]
       /\ \E a \in 1..3 : 2 * atoms.cell_lengths[a] < Angstrom(cutoff)

\* asap3.FullNeighborList(cutoff, atoms) or AseNeigborListWrapper(cutoff,
\* atoms): a neighbour list over the points of a structure, of one of the two
\* kinds, built for one cutoff; querypoint says whether the installed asap3
\* list offers get_neighbors_querypoint.  The lists are code of the asap3 and
\* ase libraries, not of the repository: what is written here is the contract
\* the repository's code relies on when it builds a list by its rule
\* (UseAseWrapper): a query reports the points below the cutoff, all of them
\* (misses is empty).  Left open by the sources, and nothing below rests on
\* them: the order in which a query reports the neighbours (here by index);
\* whether a point at the cutoff exactly is reported (no two points of the
\* structures and grids considered are 1.5 Angstrom apart); and what an asap3
\* list answers to a cutoff it was not built for (the repository's code
\* always asks with the cutoff it built the list with).  Images of a point
\* across a periodic boundary are not reported: the structures whose
\* neighbours are looked at below are not periodic.
BuildNeighborList(kind, cutoff, atoms, has_querypoint) ==
    [kind |-> kind, points |-> atoms.positions, cutoff |-> cutoff,
     querypoint |-> (kind = "asap3" /\ has_querypoint), misses |-> {}]

\* A neighbour list built with the cutoff TwiceCutoff / 2
NeighborList(kind, atoms, has_querypoint) ==
    BuildNeighborList(kind, TwiceCutoff, atoms, has_querypoint)

\* neighborlist=None: no prebuilt neighbour list
None == [kind |-> "None", points |-> <<>>, cutoff |-> 0, querypoint |-> FALSE,
         misses |-> {}]

\* neighborlist.get_neighbors(i, cutoff) with the cutoff the list was built
\* for: the indices (from 0) of the points other than i below the cutoff
\* from point i, and their squared distances; a list built where the rule
\* excludes it reports all of them but those it misses.
get_neighbors(nl, i) ==
    LET idx == SeqOfSet({j \in 0..(Len(nl.points) - 1) :
                           /\ j # i
                           /\ j \notin nl.misses
                           /\ Within(nl.points[j + 1], nl.points[i + 1], nl.cutoff)})
    IN [indices |-> idx,
        dist2 |-> [n \in 1..Len(idx) |-> Dist2(nl.points[idx[n] + 1], nl.points[i + 1])]]

\* AseNeigborListWrapper.get_neighbors(i, cutoff): the assert on the cutoff,
\* then the query
AseNeigborListWrapper_get_neighbors(nl, i, cutoff) ==
    IF cutoff # nl.cutoff THEN Raise("AssertionError")
    ELSE Return(get_neighbors(nl, i))

\* neighborlist.get_neighbors_querypoint(probe_pos): per probe position, the
\* atoms below the list's cutoff from it; a list built where the rule
\* excludes it reports all of them but those it misses.
get_neighbors_querypoint(nl, probe_pos) ==
    [p \in 1..Len(probe_pos) |->
        LET idx == SeqOfSet({j \in 0..(Len(nl.points) - 1) :
                               /\ j \notin nl.misses
                               /\ Within(nl.points[j + 1], probe_pos[p], nl.cutoff)})
        IN [indices |-> idx,
            dist2 |-> [n \in 1..Len(idx) |-> Dist2(nl.points[idx[n] + 1], probe_pos[p])]]]

\* ------------------------------------------------------------ graph builders
\* atoms_to_graph: per atom i the array of edges (neighbour, i) and the array
\* of their features, and the neighbour list built.
atoms_to_graph(atoms, cutoff, has_querypoint) ==
    LET neighborlist ==
            IF UseAseWrapper(atoms, cutoff)
            THEN BuildNeighborList("ase", cutoff, atoms, has_querypoint)
            ELSE BuildNeighborList("asap3", cutoff, atoms, has_querypoint)
        n == Len(atoms.positions)
        neigh(i) == get_neighbors(neighborlist, i)
    IN [atom_edges |->
            [a \in 1..n |-> [e \in 1..Len(neigh(a - 1).indices) |->
                                <<neigh(a - 1).indices[e], a - 1>>]],
        atom_edges_features |-> [a \in 1..n |-> neigh(a - 1).dist2],
        neighborlist |-> neighborlist]

\* (a variant of neigh_is_atom: every neighbour is kept)
neigh_is_any(atomic_numbers, neigh_idx) == 1..Len(neigh_idx)

\* neigh_is_atom, lines 398-400: the places in neigh_idx of the neighbours
\* whose atomic number is not 0
neigh_is_atom(atomic_numbers, neigh_idx) ==
    {e \in 1..Len(neigh_idx) : atomic_numbers[neigh_idx[e] + 1] # 0}

\* probes_to_graph, lines 389-392: the neighbour list built over the atoms
\* and the pseudo-atoms of the probes
PseudoAtomNeighborList(atoms, probe_pos, cutoff, has_querypoint) ==
    IF UseAseWrapper(atoms, cutoff)
    THEN BuildNeighborList("ase", cutoff, AtomsWithProbes(atoms, probe_pos),
                           has_querypoint)
    ELSE BuildNeighborList("asap3", cutoff, AtomsWithProbes(atoms, probe_pos),
                           has_querypoint)

\* probes_to_graph: per probe i the array of edges (atom, i) and the array of
\* their features.  direct is hasattr(neighborlist, "get_neighbors_querypoint").
probes_to_graph(atoms, probe_pos, cutoff, neighborlist, has_querypoint) ==
    LET direct == neighborlist.querypoint
        num_probes == Len(probe_pos)
        atoms_with_probes == AtomsWithProbes(atoms, probe_pos)
        atomic_numbers ==
            IF direct THEN atoms.numbers ELSE atoms_with_probes.numbers
        fresh == PseudoAtomNeighborList(atoms, probe_pos, cutoff, has_querypoint)
        results ==
            IF direct THEN get_neighbors_querypoint(neighborlist, probe_pos)
            ELSE [p \in 1..num_probes |->
                     get_neighbors(fresh, (p - 1) + Len(atoms.positions))]
        \* the places of the neighbours kept, in order
        keep(p) == SeqOfSet(neigh_is_atom(atomic_numbers, results[p].indices))
    IN [probe_edges |->
            [p \in 1..Len(results) |-> [e \in 1..Len(keep(p)) |->
                <<results[p].indices[keep(p)[e]], p - 1>>]],
        probe_edges_features |->
            [p \in 1..Len(results) |-> [e \in 1..Len(keep(p)) |->
                results[p].dist2[keep(p)[e]]]]]

\* flat_index of static_get_slice: np.arange(slice_index*probe_count,
\* min((slice_index+1)*probe_count, num_positions))
FlatIndex(slice_index, probe_count, num_positions) ==
    Arange(slice_index * probe_count,
           Min((slice_index + 1) * probe_count, num_positions))

\* DensityGridIterator.static_get_slice: the probe edges of the grid points
\* with flat index in flat_index.
static_get_slice(slice_index, atoms, shape, probe_count, neighborlist, has_querypoint) ==
    LET num_positions == NumPositions(shape)
        flat_index == FlatIndex(slice_index, probe_count, num_positions)
        probe_pos == [i \in 1..Len(flat_index) |->
                         GridPosition(UnravelIndex(flat_index[i], shape), shape,
                                      atoms.cell_lengths, Origin)]
        g == probes_to_graph(atoms, probe_pos, TwiceCutoff, neighborlist, has_querypoint)
        \* if not probe_edges: one zero-row array each
        probe_edges == IF g.probe_edges = <<>> THEN << <<>> >> ELSE g.probe_edges
        probe_edges_features ==
            IF g.probe_edges = <<>> THEN << <<>> >> ELSE g.probe_edges_features
        edges == Concatenate(probe_edges)
    IN [probe_edges |-> Matrix(edges, 2),
        probe_edges_features |-> Matrix(Column(Concatenate(probe_edges_features)), 1),
        num_probe_edges |-> Len(edges),
        num_probes |-> Len(flat_index)]

\* The value of the density field at a grid point: the field is data of the
\* sample, here 10 + the point's flat index.
Density(flat) == 10 + flat

\* atoms_and_probe_sample_to_graph_dict, with the random probe_choice (flat
\* grid indices, drawn with replacement) as an argument.
atoms_and_probe_sample_to_graph_dict(atoms, shape, probe_choice, has_querypoint) ==
    LET probe_pos == [i \in 1..Len(probe_choice) |->
                         GridPosition(UnravelIndex(probe_choice[i], shape), shape,
                                      atoms.cell_lengths, Origin)]
        probe_target == [i \in 1..Len(probe_choice) |-> Density(probe_choice[i])]
        ag == atoms_to_graph(atoms, TwiceCutoff, has_querypoint)
        pg == probes_to_graph(atoms, probe_pos, TwiceCutoff, ag.neighborlist,
                              has_querypoint)
        probe_edges == IF pg.probe_edges = <<>> THEN << <<>> >> ELSE pg.probe_edges
        probe_edges_features ==
            IF pg.probe_edges = <<>> THEN << <<>> >> ELSE pg.probe_edges_features
        atom_edges == NpConcatenate(ag.atom_edges)
        atom_edges_features == NpConcatenate(ag.atom_edges_features)
        pe == Concatenate(probe_edges)
    IN IF atom_edges.raised # "" THEN Raise(atom_edges.raised)
       ELSE IF atom_edges_features.raised # "" THEN Raise(atom_edges_features.raised)
       ELSE Return(
        [nodes |-> Vector(atoms.numbers),
         atom_edges |-> Matrix(atom_edges.value, 2),
         atom_edges_features |-> Matrix(Column(atom_edges_features.value), 1),
         probe_edges |-> Matrix(pe, 2),
         probe_edges_features |-> Matrix(Column(Concatenate(probe_edges_features)), 1),
         probe_target |-> Vector(probe_target),
         num_nodes |-> Scalar(Len(atoms.numbers)),
         num_atom_edges |-> Scalar(Len(atom_edges.value)),
         num_probe_edges |-> Scalar(Len(pe)),
         num_probes |-> Scalar(Len(probe_target))])

\* atoms_to_graph_dict
atoms_to_graph_dict(atoms, has_querypoint) ==
    LET ag == atoms_to_graph(atoms, TwiceCutoff, has_querypoint)
        atom_edges == NpConcatenate(ag.atom_edges)
        atom_edges_features == NpConcatenate(ag.atom_edges_features)
    IN IF atom_edges.raised # "" THEN Raise(atom_edges.raised)
       ELSE IF atom_edges_features.raised # "" THEN Raise(atom_edges_features.raised)
       ELSE Return(
        [nodes |-> Vector(atoms.numbers),
         atom_edges |-> Matrix(atom_edges.value, 2),
         atom_edges_features |-> Matrix(Column(atom_edges_features.value), 1),
         num_nodes |-> Scalar(Len(atoms.numbers)),
         num_atom_edges |-> Scalar(Len(atom_edges.value))])

\* ------------------------------------------------------------ state
VARIABLES
    \* DensityGridIterator: the sample iterated over ([atoms, shape], shape being
    \* grid_position.shape[0:3]), and the fields set by __init__ and __iter__
    densitydict, probe_count, num_slices, current_slice, finished_slices,
    \* the two multiprocessing queues of the last __iter__, oldest item first
    \* (of result_queue: the items in its pipe, which get() and empty() see;
    \* an item put is first in the buffer of the process that put it), and
    \* the capacity of the result queue
    slice_id_queue, result_queue, result_maxsize,
    \* the caller: where it is ("new", "starting", "idle", "next", "join",
    \* "stopped"), the local this_slice of __next__, the (key, result) pairs
    \* __next__ has returned since the last __iter__ and those it returned
    \* before it, and the number of calls of __iter__ made
    cpc, this_slice, delivered, earlier, iters,
    \* self.workers: the worker processes, as the bag of their local states
    \* [pc, slice_id, neighborlist, buffer, locks, sem_taken]; the six processes run
    \* the same
    \* code on the same arguments and nothing names one of them, so the bag is
    \* all there is to know.  pc is "created", "start", "get", "compute",
    \* "drain", "exited", "crashed" or "killed".
    workers,
    \* the queues and the workers earlier calls of __iter__ made and left
    \* behind running, oldest first: [slice_id_queue, result_queue, workers]
    \* each
    abandoned,
    \* the environment: whether asap3.FullNeighborList raises for this
    \* structure, whether its lists offer get_neighbors_querypoint, and how many
    \* workers have died computing or been killed
    build_fails, querypoint, kills,
    \* the environment: the atoms (indices from 0) an asap3 list over the
    \* iterator's structure fails to report to a query, when it is built for a
    \* structure the selection rule excludes it for; none otherwise
    asap3_misses,
    \* static_get_slice is a pure function of its arguments, and the workers'
    \* arguments are fixed by __init__: its values on them, which line 179 looks
    \* up (computed once, in Init, and never changed)
    slice_results,
    \* a caller of get_slice: the (flat_index, result) of the calls
    \* get_slice(0), get_slice(1), ... made so far, in order
    slices,
    \* RotatingPoolData: len(self.parent_data), self.pool_size, self.data_pool
    \* (a dataset item is named by its index in the parent dataset) and
    \* self.loader_queue, oldest item first
    parent_len, pool_size, data_pool, loader_queue,
    \* rotating_pool_worker: the part of the current permutation not yet put;
    \* transfer_thread: the loop variable index; and a reader: its last call
    \* of __len__ or __getitem__ and what it returned
    permutation, transfer_index, item_read,
    \* rotating_pool_worker: the item loaded and not yet put (NoSample: none);
    \* transfer_thread: the item got and not yet stored (NoSample: none)
    held, popped,
    \* (a log, kept when recording: the items put, in the order of their put,
    \* and the slot writes, in the order of their store)
    recording, pushed, written,
    \* a reader inside __getitem__: the index it was called with and (a log)
    \* the sample slot index held when the call began and the last sample
    \* written to the slot since (NoRead: no call is under way)
    reader,
    \* a caller of the graph builders and of collate_list_of_dicts: the number
    \* of probes it asks for, its last builder call and the call's outcome,
    \* the graphs it has collected, and the outcome of its collate call
    num_probes, last_call, graphs, collated,
    \* a sample of the dataset or the pool: its structure as it was loaded and
    \* as the sample holds it now; and the last call of a collate function or
    \* of a grid iterator's get_slice on the sample, with its outcome
    loaded, stored, sample_call

\* what __init__ and the environment fix
gridconf == <<densitydict, probe_count, num_slices, result_maxsize, build_fails,
              querypoint, asap3_misses, slice_results>>

\* the caller's side of the iterator
callervars == <<current_slice, finished_slices, cpc, this_slice, delivered, earlier,
                iters>>

\* the queues and the workers of every call of __iter__
genvars == <<slice_id_queue, result_queue, workers, abandoned>>

gridvars == <<gridconf, callervars, genvars, kills>>

poolvars == <<parent_len, pool_size, data_pool, loader_queue, permutation,
              transfer_index, item_read, held, popped, recording, pushed,
              written, reader>>

samplevars == <<loaded, stored, sample_call>>

batchvars == <<num_probes, last_call, graphs, collated, samplevars>>

\* the variables no step of the grid iterator touches
nongrid == <<slices, poolvars, batchvars>>

vars == <<gridvars, slices, poolvars, batchvars>>

\* ------------------------------------------------------------ inputs
\* A cubic cell of the given length in Angstrom
Cell(length) == <<Angstrom(length), Angstrom(length), Angstrom(length)>>

\* Structures: up to MaxAtoms atoms (atomic number 1) on the x axis, a whole
\* number of Angstrom from the origin, in a non-periodic cell that is large
\* (10 Angstrom per axis) or missing (all lengths 0).
AtomPositions == {<<Angstrom(x), 0, 0>> : x \in 0..MaxCoord}

PositionLists == UNION {[1..n -> AtomPositions] : n \in 0..MaxAtoms}

NoPbc == <<FALSE, FALSE, FALSE>>

Structures ==
    {MakeAtoms(ps, [i \in 1..Len(ps) |-> 1], c, NoPbc) :
        ps \in PositionLists, c \in {Cell(10), Cell(0)}}

\* Grid shapes: every extent in 1..MaxDim.
GridShapes == {<<nx, ny, nz>> : nx \in 1..MaxDim, ny \in 1..MaxDim, nz \in 1..MaxDim}

\* The samples the grid iterator is run over: one atom at the origin of a
\* cell of 3 Angstrom per axis, and a density of 0..MaxGridPoints points
\* along the x axis (its grid points are 3/n Angstrom apart).
GridSamples ==
    {[atoms |-> MakeAtoms(<< <<0, 0, 0>> >>, <<1>>, Cell(3), NoPbc),
      shape |-> <<n, 1, 1>>] : n \in 0..MaxGridPoints}

\* The samples the grid iterator is run over where the choice of the
\* neighbour list matters: one atom at the origin, and one grid point or
\* more (fewer than MaxGridPoints) along the x axis, in the degenerate cell
\* of a structure given without one (all its grid points are at the
\* origin), or in a cell of 3 Angstrom per axis.
CellSamples ==
    {[atoms |-> MakeAtoms(<< <<0, 0, 0>> >>, <<1>>, Cell(0), NoPbc),
      shape |-> <<n, 1, 1>>] : n \in 1..(MaxGridPoints - 1)}
    \cup {[atoms |-> MakeAtoms(<< <<0, 0, 0>> >>, <<1>>, Cell(3), NoPbc),
            shape |-> <<n, 1, 1>>] : n \in 1..(MaxGridPoints - 1)}

\* ------------------------------------------------------------ the grid iterator
\* The locals of a worker that has pulled nothing yet.
NoSlice == -1

\* dict with key i set to res
DictSet(d, i, res) == [k \in (DOMAIN d) \cup {i} |-> IF k = i THEN res ELSE d[k]]

\* dict without key i
DictPop(d, i) == [k \in (DOMAIN d) \ {i} |-> d[k]]

\* warnings.warn(message, category): raises TypeError unless category is None
\* or a subclass of Warning.
warnings_warn(category) ==
    IF category \in {"None", "Warning subclass"} THEN Return("None")
    ELSE Raise("TypeError")

\* What an asap3 list built over atoms, whatever the selection rule says,
\* may fail to report.  Where the rule selects asap3, nothing.  Where the
\* rule excludes it (a degenerate cell, or a periodic cell shorter than the
\* cutoff), the list is outside the regime it is relied on in: it may
\* answer as the fallback does or leave out any of the atoms.
Asap3Misses(atoms) ==
    IF UseAseWrapper(atoms, TwiceCutoff)
    THEN SUBSET (0..(Len(atoms.positions) - 1))
    ELSE {{}}

\* grid_iterator_worker, line 167: asap3.FullNeighborList(cutoff, atoms), built
\* without asking the selection rule
WorkerNeighborList ==
    [NeighborList("asap3", densitydict.atoms, querypoint)
        EXCEPT !.misses = asap3_misses]

\* static_get_slice(slice_id, atoms, meshgrid, probe_count, cutoff, neighborlist)
\* as a worker of this iterator calls it, per slice index and per kind of the
\* worker's neighborlist ("asap3" or "None")
WorkerSliceResults ==
    [k \in 0..(num_slices - 1) |->
        [kind \in {"asap3", "None"} |->
            static_get_slice(k, densitydict.atoms, densitydict.shape, probe_count,
                IF kind = "None" THEN None ELSE WorkerNeighborList,
                querypoint)]]

\* torch.tensor(v) of a python number: a 0-dimensional tensor
torch_tensor_of_number(v) == Scalar(v)

\* torch.tensor(v) of an array: a tensor of the same shape and data
torch_tensor_of_array(v) == [shape |-> v.shape, data |-> v.data]

\* __next__, line 243: {k: torch.tensor(v) for k, v in res.items()} of the
\* dict static_get_slice returned
TorchTensors(res) ==
    [probe_edges |-> torch_tensor_of_array(res.probe_edges),
     probe_edges_features |-> torch_tensor_of_array(res.probe_edges_features),
     num_probe_edges |-> torch_tensor_of_number(res.num_probe_edges),
     num_probes |-> torch_tensor_of_number(res.num_probes)]

\* A worker process: where its code is (pc), its locals slice_id and
\* neighborlist, the buffer of its copy of result_queue (the items its
\* put() has returned for and its feeder thread has not written to the pipe
\* yet; of a killed process, the items lost with it), and, of a killed
\* process, what it was killed in the middle of: "rlock", it held the read
\* lock of slice_id_queue (inside get); "wlock", its feeder thread held the
\* write lock of result_queue; "partial", the feeder thread had written a
\* part of the oldest item of the buffer to the pipe; sem_taken, the places
\* on the semaphore of result_queue it had taken inside put() for an item
\* it had not yet appended to the buffer (1 or 0).  A lock held or a place
\* taken by a killed process is never released.
WorkerState(pc, sid, nl, buffer, locks, sem_taken) ==
    [pc |-> pc, slice_id |-> sid, neighborlist |-> nl, buffer |-> buffer,
     locks |-> locks, sem_taken |-> sem_taken]

\* The queues and the workers one call of __iter__ made
Generation(sq, rq, ws) == [slice_id_queue |-> sq, result_queue |-> rq, workers |-> ws]

\* The generations there are: 0 is that of the last call of __iter__, whose
\* queues and workers the iterator's fields name; 1, 2, ... are the abandoned
\* ones
Generations == 0..Len(abandoned)

Gen(g) ==
    IF g = 0 THEN Generation(slice_id_queue, result_queue, workers) ELSE abandoned[g]

\* Generation g is now gen
GenStep(g, gen) ==
    IF g = 0
    THEN /\ slice_id_queue' = gen.slice_id_queue
         /\ result_queue' = gen.result_queue
         /\ workers' = gen.workers
         /\ abandoned' = abandoned
    ELSE /\ abandoned' = [abandoned EXCEPT ![g] = gen]
         /\ UNCHANGED <<slice_id_queue, result_queue, workers>>

\* The local states some worker of generation g is in
WorkersOf(g) == BagToSet(Gen(g).workers)

\* In generation g the worker in local state w is now in local state v, and
\* the generation's queues are sq and rq
WorkerStep(g, w, v, sq, rq) ==
    GenStep(g, Generation(sq, rq,
                (Gen(g).workers (-) SetToBag({w})) (+) SetToBag({v})))

\* The local states some worker of the last __iter__ is in
WorkerStates == BagToSet(workers)

\* The number of items in the buffers of the workers ws in the bag
RECURSIVE Buffered(_, _)
Buffered(bag, ws) ==
    IF ws = {} THEN 0
    ELSE LET w == CHOOSE w \in ws : TRUE
         IN bag[w] * Len(w.buffer) + Buffered(bag, ws \ {w})

\* The number of places on the semaphore of result_queue that the workers
\* ws in the bag took and died with, their item in no buffer
RECURSIVE SemTaken(_, _)
SemTaken(bag, ws) ==
    IF ws = {} THEN 0
    ELSE LET w == CHOOSE w \in ws : TRUE
         IN bag[w] * w.sem_taken + SemTaken(bag, ws \ {w})

\* What the semaphore of the generation's result_queue counts: the items put
\* and not got, whether they are in the pipe, in a worker's buffer or lost
\* with the buffer of a killed worker, and the places taken by a worker
\* killed inside put() before it appended its item
PutNotGot(gen) ==
    Len(gen.result_queue) + Buffered(gen.workers, BagToSet(gen.workers))
        + SemTaken(gen.workers, BagToSet(gen.workers))

\* The process of worker w has ended: it was killed, or it returned or died
\* of an exception and its exit has flushed its buffer
Terminated(w) ==
    w.pc = "killed" \/ (w.pc \in {"exited", "crashed"} /\ w.buffer = <<>>)

\* The read lock of the generation's slice_id_queue is held by a killed
\* process: no get() on it acquires the lock any more
ReadLockLost(gen) == \E w \in BagToSet(gen.workers) : "rlock" \in w.locks

\* The write lock of the generation's result_queue is held by a killed
\* process: no feeder thread writes to its pipe any more
WriteLockLost(gen) == \E w \in BagToSet(gen.workers) : "wlock" \in w.locks

\* The caller is inside the while loop of __next__ (lines 241-244): in
\* result_queue.get() whenever the pipe holds no whole item
CallerInGet == cpc = "next" /\ this_slice \notin DOMAIN finished_slices

\* The pipe of the result_queue of generation g holds a part of an item:
\* poll() sees data (empty() is False).  A feeder thread killed in the
\* middle of a write left it there, behind the whole items; a get() that
\* comes to it reads it out of the pipe and waits for the rest forever, and
\* poll() sees nothing again.  Only the caller of the last __iter__ gets
\* from its result_queue.
PartialInPipe(g) ==
    /\ \E w \in WorkersOf(g) : "partial" \in w.locks
    /\ ~(g = 0 /\ CallerInGet /\ result_queue = <<>>)

\* The outcome of a call that has not been made
NotCalled == [raised |-> "not called"]

\* (no sample in hand: the place of a sample the process does not hold)
NoSample == [atoms |-> -1, density |-> -1]

\* (no call of __getitem__ is under way)
NoRead == [index |-> -1, before |-> NoSample, during |-> NoSample]

\* No DensityGridIterator has been constructed
GridOff ==
    /\ densitydict = <<>>
    /\ probe_count = 0
    /\ num_slices = 0
    /\ current_slice = 0
    /\ this_slice = NoSlice
    /\ finished_slices = <<>>
    /\ slice_id_queue = <<>>
    /\ result_queue = <<>>
    /\ result_maxsize = 0
    /\ cpc = "off"
    /\ delivered = <<>>
    /\ earlier = <<>>
    /\ iters = 0
    /\ workers = EmptyBag
    /\ abandoned = <<>>
    /\ build_fails = FALSE
    /\ asap3_misses = {}
    /\ kills = 0
    /\ slice_results = <<>>
    /\ slices = <<>>

\* No RotatingPoolData has been constructed
PoolOff ==
    /\ parent_len = 0
    /\ pool_size = 0
    /\ data_pool = <<>>
    /\ loader_queue = <<>>
    /\ permutation = <<>>
    /\ transfer_index = 0
    /\ item_read = NotCalled
    /\ held = NoSample
    /\ popped = NoSample
    /\ recording = FALSE
    /\ pushed = <<>>
    /\ written = <<>>
    /\ reader = NoRead

\* No sample is followed through the collate functions and the iterator
SampleOff ==
    /\ loaded = <<>>
    /\ stored = <<>>
    /\ sample_call = NotCalled

\* No graph has been built and nothing collated
BatchOff ==
    /\ num_probes = 0
    /\ last_call = NotCalled
    /\ graphs = <<>>
    /\ collated = NotCalled
    /\ SampleOff

\* DensityGridIterator.__init__ on one of samples, for some probe_count; sizes
\* are the capacities of the result queue and querypoints the kinds of asap3
\* build to consider
GridInit(samples, sizes, querypoints) ==
    /\ densitydict \in samples
    /\ probe_count \in 1..MaxProbeCount
    /\ num_slices = CeilDiv(NumPositions(densitydict.shape), probe_count)
    /\ result_maxsize \in sizes
    /\ build_fails \in BOOLEAN
    /\ querypoint \in querypoints
    /\ asap3_misses \in Asap3Misses(densitydict.atoms)
    /\ current_slice = 0
    /\ this_slice = NoSlice
    /\ finished_slices = <<>>
    /\ slice_id_queue = <<>>
    /\ result_queue = <<>>
    /\ cpc = "new"
    /\ delivered = <<>>
    /\ earlier = <<>>
    /\ iters = 0
    /\ workers = EmptyBag
    /\ abandoned = <<>>
    /\ kills = 0
    /\ slice_results = WorkerSliceResults
    /\ slices = <<>>
    /\ PoolOff
    /\ BatchOff

\* __iter__, lines 224-230: reset current_slice and finished_slices, make two
\* new queues, put 0..num_slices-1 on the work queue and create six
\* processes.  The caller may call it again, up to MaxIters times in all.
IterCall ==
    /\ iters < MaxIters
    /\ iters' = iters + 1
    /\ current_slice' = 0
    /\ slice_id_queue' = Arange(0, num_slices)
    /\ result_queue' = <<>>
    /\ finished_slices' = <<>>
    /\ workers' = [w \in {WorkerState("created", NoSlice, None, <<>>, {}, 0)} |-> NumWorkers]
    /\ earlier' = earlier \o delivered
    /\ delivered' = <<>>
    /\ cpc' = "starting"
    /\ UNCHANGED <<this_slice, kills, gridconf, nongrid>>

\* __iter__ called for the first time, or again after StopIteration: the
\* processes of the call before have been joined and nothing is left of them.
Iter ==
    /\ cpc \in {"new", "stopped"}
    /\ IterCall
    /\ abandoned' = abandoned

\* __iter__ called again before StopIteration, between two calls of __next__:
\* no field names the processes of the call before or their queues any more.
\* They run on, their result queue is never read again and they are never
\* joined.
IterAbandon ==
    /\ cpc = "idle"
    /\ IterCall
    /\ abandoned' = Append(abandoned, Gen(0))

\* __iter__, lines 231-233: w.start() of the next process of self.workers
\* (the processes started before it are running by now); after the last one
\* __iter__ returns
IterStart ==
    /\ cpc = "starting"
    /\ \E w \in WorkerStates :
          /\ w.pc = "created"
          /\ WorkerStep(0, w, [w EXCEPT !.pc = "start"], slice_id_queue, result_queue)
          /\ cpc' = IF workers[w] = 1 THEN "idle" ELSE "starting"
    /\ UNCHANGED <<current_slice, finished_slices, this_slice, delivered, earlier,
                   iters, kills, gridconf, nongrid>>

\* grid_iterator_worker, lines 166-170: build the asap3 list; on an exception
\* call warnings.warn with the exception object as its second argument and go
\* on with None.
WorkerStart ==
    \E g \in Generations : \E w \in WorkersOf(g) :
        /\ w.pc = "start"
        /\ LET v == IF ~build_fails
                    THEN [w EXCEPT !.pc = "get",
                            !.neighborlist = WorkerNeighborList]
                    ELSE IF warnings_warn("Exception instance").raised # ""
                    THEN [w EXCEPT !.pc = "crashed"]
                    ELSE [w EXCEPT !.pc = "get"]
           IN WorkerStep(g, w, v, Gen(g).slice_id_queue, Gen(g).result_queue)
        /\ UNCHANGED <<callervars, kills, gridconf, nongrid>>

\* slice_id_queue.get(True, 10) returns the oldest index
WorkerGet ==
    \E g \in Generations : \E w \in WorkersOf(g) :
        /\ w.pc = "get"
        /\ Gen(g).slice_id_queue # <<>>
        /\ ~ReadLockLost(Gen(g))
        /\ WorkerStep(g, w, [w EXCEPT !.pc = "compute",
                                      !.slice_id = Head(Gen(g).slice_id_queue)],
                      Tail(Gen(g).slice_id_queue), Gen(g).result_queue)
        /\ UNCHANGED <<callervars, kills, gridconf, nongrid>>

\* slice_id_queue.get(True, 10) raises queue.Empty: the work queue stayed empty
\* for the timeout, or the queue's read lock was not acquired within it (a
\* running process holds it only while it waits on an empty pipe or reads
\* one item; a killed one holds it for good, whatever is on the queue)
WorkerTimeout ==
    \E g \in Generations : \E w \in WorkersOf(g) :
        /\ w.pc = "get"
        /\ (Gen(g).slice_id_queue = <<>> \/ ReadLockLost(Gen(g)))
        /\ WorkerStep(g, w, [w EXCEPT !.pc = "drain"],
                      Gen(g).slice_id_queue, Gen(g).result_queue)
        /\ UNCHANGED <<callervars, kills, gridconf, nongrid>>

\* while not result_queue.empty(): sleep; then close and return 0.  empty()
\* polls the pipe: an item in some process's buffer is not seen, a part of
\* an item in the pipe is, until the caller's get() has read it out.
WorkerExit ==
    \E g \in Generations : \E w \in WorkersOf(g) :
        /\ w.pc = "drain"
        /\ Gen(g).result_queue = <<>>
        /\ ~PartialInPipe(g)
        /\ WorkerStep(g, w, [w EXCEPT !.pc = "exited"],
                      Gen(g).slice_id_queue, Gen(g).result_queue)
        /\ UNCHANGED <<callervars, kills, gridconf, nongrid>>

\* lines 179-180: compute the slice and put (slice_id, res): put blocks while
\* maxsize items are put and not got, then appends the item to the buffer of
\* the worker's copy of the queue and returns
WorkerPut ==
    \E g \in Generations : \E w \in WorkersOf(g) :
        /\ w.pc = "compute"
        /\ PutNotGot(Gen(g)) < result_maxsize
        /\ LET res == slice_results[w.slice_id][w.neighborlist.kind]
           IN WorkerStep(g, w, [w EXCEPT !.pc = "get",
                                         !.buffer = Append(@, <<w.slice_id, res>>)],
                         Gen(g).slice_id_queue, Gen(g).result_queue)
        /\ UNCHANGED <<callervars, kills, gridconf, nongrid>>

\* The feeder thread of a worker's copy of result_queue writes the oldest
\* item of the buffer to the pipe.  It goes on after the worker's code has
\* returned or raised: the process ends when the buffer is flushed.  It
\* writes under the queue's write lock.
FeederWrite ==
    \E g \in Generations : \E w \in WorkersOf(g) :
        /\ w.buffer # <<>> /\ w.pc # "killed"
        /\ ~WriteLockLost(Gen(g))
        /\ WorkerStep(g, w, [w EXCEPT !.buffer = Tail(@)],
                      Gen(g).slice_id_queue,
                      Append(Gen(g).result_queue, Head(w.buffer)))
        /\ UNCHANGED <<callervars, kills, gridconf, nongrid>>

\* (a variant of WorkerFail: the index the dying worker had pulled goes back
\* on the work queue)
WorkerFailRequeue ==
    \E g \in Generations : \E w \in WorkersOf(g) :
        /\ w.pc = "compute"
        /\ kills < MaxKills /\ iters <= MaxKillIters
        /\ kills' = kills + 1
        /\ WorkerStep(g, w, [w EXCEPT !.pc = "crashed"],
                      Append(Gen(g).slice_id_queue, w.slice_id), Gen(g).result_queue)
        /\ UNCHANGED <<callervars, gridconf, nongrid>>

\* static_get_slice raises in a worker: nothing catches it; the process
\* flushes its buffer and ends.
WorkerFail ==
    \E g \in Generations : \E w \in WorkersOf(g) :
        /\ w.pc = "compute"
        /\ kills < MaxKills /\ iters <= MaxKillIters
        /\ kills' = kills + 1
        /\ WorkerStep(g, w, [w EXCEPT !.pc = "crashed"],
                      Gen(g).slice_id_queue, Gen(g).result_queue)
        /\ UNCHANGED <<callervars, gridconf, nongrid>>

\* The process of worker w is running: it has been started and has not
\* ended (after its code has returned or raised it runs until its buffer is
\* flushed)
Running(w) ==
    \/ w.pc \in {"start", "get", "compute", "drain"}
    \/ (w.pc \in {"exited", "crashed"} /\ w.buffer # <<>>)

\* The index worker w has pulled and not put: the one it is computing, or
\* died computing (and is flushing its buffer)
HeldIndex(w) == IF w.pc \in {"compute", "crashed"} THEN w.slice_id ELSE NoSlice

\* What a kill can find the main thread of worker w of generation gen at:
\* outside the queue operations (nothing of the queues is touched); at line
\* 173, inside slice_id_queue.get, holding the queue's read lock, before it
\* has read anything or with the oldest index read; or at line 180, inside
\* result_queue.put, with a place on the queue's semaphore taken and the
\* item not yet appended to the buffer.  [slice_id, slice_id_queue, locks,
\* sem_taken]: the index that dies with the process, the work queue, the
\* lock left held and the places left taken.
KilledMain(gen, w) ==
    {[slice_id |-> HeldIndex(w), slice_id_queue |-> gen.slice_id_queue,
      locks |-> {}, sem_taken |-> 0]}
    \cup (IF w.pc = "get" /\ ~ReadLockLost(gen)
          THEN {[slice_id |-> NoSlice, slice_id_queue |-> gen.slice_id_queue,
                 locks |-> {"rlock"}, sem_taken |-> 0]}
               \cup (IF gen.slice_id_queue # <<>>
                     THEN {[slice_id |-> Head(gen.slice_id_queue),
                            slice_id_queue |-> Tail(gen.slice_id_queue),
                            locks |-> {"rlock"}, sem_taken |-> 0]}
                     ELSE {})
          ELSE {})
    \cup (IF w.pc = "compute" /\ PutNotGot(gen) < result_maxsize
          THEN {[slice_id |-> w.slice_id, slice_id_queue |-> gen.slice_id_queue,
                 locks |-> {}, sem_taken |-> 1]}
          ELSE {})

\* What a kill can find the feeder thread of worker w at: outside a write;
\* or holding the write lock of result_queue with nothing of the oldest
\* item of the buffer written, with a part of it written, or with all of
\* it written.  [buffer, result_queue, locks]: the items lost with the
\* process, the complete items in the pipe and what is left held.
KilledFeeder(gen, w) ==
    {[buffer |-> w.buffer, result_queue |-> gen.result_queue, locks |-> {}]}
    \cup (IF w.buffer # <<>> /\ ~WriteLockLost(gen)
          THEN {[buffer |-> w.buffer, result_queue |-> gen.result_queue,
                 locks |-> {"wlock"}],
                [buffer |-> w.buffer, result_queue |-> gen.result_queue,
                 locks |-> {"wlock", "partial"}],
                [buffer |-> Tail(w.buffer),
                 result_queue |-> Append(gen.result_queue, Head(w.buffer)),
                 locks |-> {"wlock"}]}
          ELSE {})

\* A running worker process is killed (SIGKILL), at any line and inside any
\* queue operation: it stops there, the items in its buffer are never
\* written, and the locks it holds and the place it has taken on a
\* semaphore are never released.
WorkerKill ==
    \E g \in Generations : \E w \in WorkersOf(g) :
        /\ Running(w)
        /\ kills < MaxKills /\ iters <= MaxKillIters
        /\ kills' = kills + 1
        /\ \E m \in KilledMain(Gen(g), w), f \in KilledFeeder(Gen(g), w) :
              WorkerStep(g, w,
                         WorkerState("killed", m.slice_id, w.neighborlist, f.buffer,
                                     m.locks \cup f.locks, m.sem_taken),
                         m.slice_id_queue, f.result_queue)
        /\ UNCHANGED <<callervars, gridconf, nongrid>>

\* __next__, lines 236-238 and 246: take the next index, or go and join
NextCall ==
    /\ cpc \in {"idle", "stopped"}
    /\ IF current_slice < num_slices
       THEN /\ this_slice' = current_slice
            /\ current_slice' = current_slice + 1
            /\ cpc' = "next"
       ELSE /\ cpc' = "join"
            /\ UNCHANGED <<this_slice, current_slice>>
    /\ UNCHANGED <<finished_slices, delivered, earlier, iters, genvars, kills,
                   gridconf, nongrid>>

\* lines 241-244: one round of the while loop: result_queue.get() blocks
\* while the pipe is empty; the result's values are made tensors and stored
\* under the slice index
NextGet ==
    /\ cpc = "next"
    /\ this_slice \notin DOMAIN finished_slices
    /\ result_queue # <<>>
    /\ finished_slices' = DictSet(finished_slices, Head(result_queue)[1],
                                  TorchTensors(Head(result_queue)[2]))
    /\ result_queue' = Tail(result_queue)
    /\ UNCHANGED <<current_slice, cpc, this_slice, delivered, earlier, iters,
                   slice_id_queue, workers, abandoned, kills, gridconf, nongrid>>

\* (a variant of PopKey: the entry with the largest key is returned)
PopKeyLargest ==
    CHOOSE k \in DOMAIN finished_slices : \A j \in DOMAIN finished_slices : j <= k

\* The key whose entry line 245 pops and returns
PopKey == this_slice

\* line 245: return self.finished_slices.pop(this_slice)
NextReturn ==
    /\ cpc = "next"
    /\ this_slice \in DOMAIN finished_slices
    /\ PopKey \in DOMAIN finished_slices
    /\ delivered' = Append(delivered, <<PopKey, finished_slices[PopKey]>>)
    /\ finished_slices' = DictPop(finished_slices, PopKey)
    /\ cpc' = "idle"
    /\ UNCHANGED <<current_slice, this_slice, earlier, iters, genvars, kills,
                   gridconf, nongrid>>

\* (a variant of Join: StopIteration is raised without joining the workers)
JoinNoWait ==
    /\ cpc = "join"
    /\ cpc' = "stopped"
    /\ UNCHANGED <<current_slice, finished_slices, this_slice, delivered, earlier,
                   iters, genvars, kills, gridconf, nongrid>>

\* lines 247-249: w.join() has returned for every process of self.workers;
\* raise StopIteration
Join ==
    /\ cpc = "join"
    /\ \A w \in WorkerStates : Terminated(w)
    /\ cpc' = "stopped"
    /\ UNCHANGED <<current_slice, finished_slices, this_slice, delivered, earlier,
                   iters, genvars, kills, gridconf, nongrid>>

\* The steps of the code, with a caller that calls __iter__ again only after
\* StopIteration
GridSteps ==
    \/ Iter
    \/ IterStart
    \/ WorkerStart
    \/ WorkerGet
    \/ WorkerTimeout
    \/ WorkerPut
    \/ FeederWrite
    \/ WorkerExit
    \/ NextCall
    \/ NextGet
    \/ NextReturn
    \/ Join

\* The steps of the code, and a worker dying: of an exception while it
\* computes a slice, or killed wherever it is
GridNext == GridSteps \/ WorkerFail \/ WorkerKill

\* The grid iterator with workers that die.  The asap3 build is one without
\* get_neighbors_querypoint: workers and get_slice both insert pseudo-atoms.
SpecGrid == GridInit(GridSamples, {ResultQueueMaxsize}, {FALSE}) /\ [][GridNext]_vars

\* The grid iterator over structures with and without a degenerate cell.
\* The asap3 build is one with get_neighbors_querypoint: a worker queries its
\* list directly, where get_slice in the caller's process inserts
\* pseudo-atoms.
SpecGridCells ==
    GridInit(CellSamples, {ResultQueueMaxsize}, {TRUE}) /\ [][GridNext]_vars

\* The samples the grid iterator is run over to its end under fairness:
\* those with fewer than MaxGridPoints grid points
FairSamples == {s \in GridSamples : NumPositions(s.shape) < MaxGridPoints}

\* The grid iterator when no worker dies while it runs, with the result
\* queue's capacity 100 and, so that a full result queue occurs with few
\* slices, with capacity 1.  Some enabled step is eventually taken: no process
\* or thread that can run is held back forever, and the caller keeps asking
\* for the next slice.  The asap3 build is one with get_neighbors_querypoint
\* (which kind it is changes what a worker computes, not when it runs).
SpecGridFair ==
    /\ GridInit(FairSamples, {1, ResultQueueMaxsize}, {TRUE})
    /\ [][GridSteps]_vars
    /\ WF_vars(GridSteps)

\* The grid iterator with a caller that calls __iter__ again at any time,
\* over a grid of one point (one slice): the workers left behind run on next
\* to those of the new call.
GridAgainInit ==
    /\ GridInit({s \in GridSamples : NumPositions(s.shape) = 1}, {ResultQueueMaxsize},
                {TRUE})
    /\ probe_count = 1

SpecGridAgain == GridAgainInit /\ [][GridSteps \/ IterAbandon]_vars

\* ------------------------------------------------------------ claims: grid iterator
\* What a worker pushes for slice k: static_get_slice with its neighborlist
\* (the asap3 list, or None)
SliceResults(k) ==
    {static_get_slice(k, densitydict.atoms, densitydict.shape, probe_count, nl, querypoint) :
        nl \in {None, WorkerNeighborList}}

\* No worker of the iteration has died
NoWorkerFailed == \A w \in WorkerStates : w.pc \notin {"crashed", "killed"}

\* Every worker process of the iteration has ended
AllWorkersGone == \A w \in WorkerStates : Terminated(w)

\* C1: in an iteration (the calls of __next__ since the last __iter__) the
\* k-th call of __next__ (k from 0) returns the entry stored under key k,
\* which is the result a worker pushed with slice index k, its values made
\* tensors: the results are delivered in the order 0, 1, ..., never out of
\* order.
C1_DeliveredInIndexOrder ==
    /\ Len(delivered) <= num_slices
    /\ \A k \in 1..Len(delivered) :
          /\ delivered[k][1] = k - 1
          /\ delivered[k][2] \in {TorchTensors(res) : res \in SliceResults(k - 1)}

\* C1 witness: slice 0 has been delivered, and slice 2 arrived before slice 1:
\* it waits in finished_slices while slice 1 is still missing.
C1_Witness ==
    /\ Len(delivered) = 1
    /\ 2 \in DOMAIN finished_slices
    /\ 1 \notin DOMAIN finished_slices

\* C2: StopIteration is raised only after exactly num_slices results have been
\* delivered and every worker process of the iteration has ended, and when
\* no worker fails every iteration the caller does not give up for a new one
\* gets there, also with a result queue that fills up.
C2_IterationFinishes ==
    /\ [](cpc = "stopped" => (Len(delivered) = num_slices /\ AllWorkersGone
                              /\ workers # EmptyBag))
    /\ \A n \in 1..MaxIters :
          (iters = n) ~> (cpc = "stopped" \/ iters # n \/ ~NoWorkerFailed)

\* C2 witness: an iteration over at least two slices with a result queue of
\* capacity 1 has ended, no worker having failed.
C2_Witness ==
    /\ cpc = "stopped"
    /\ num_slices >= 2
    /\ result_maxsize = 1
    /\ Len(delivered) = num_slices
    /\ NoWorkerFailed

\* C9, as claimed: a worker whose asap3.FullNeighborList raised at startup does
\* not die (it goes on with no prebuilt list), so no worker is ever dead
\* without having pulled a slice index.
C9_WorkerSurvivesBuildFailure ==
    \A w \in WorkerStates : ~(w.pc = "crashed" /\ w.slice_id = NoSlice)

\* The number of workers that have returned from grid_iterator_worker
ExitedCount ==
    BagCardinality([w \in {v \in WorkerStates : v.pc = "exited"} |-> workers[w]])

\* The slice indices in the buffers of the workers ws
BufferedIndices(ws) ==
    UNION {{w.buffer[n][1] : n \in 1..Len(w.buffer)} : w \in ws}

\* The slice indices whose result is on its way to the caller or with it: in
\* the buffer of a worker process that has not been killed, in the pipe of
\* the result queue, in finished_slices, or delivered
ArrivingIndices ==
    BufferedIndices({w \in WorkerStates : w.pc # "killed"})
        \cup {result_queue[n][1] : n \in 1..Len(result_queue)}
        \cup DOMAIN finished_slices
        \cup {delivered[n][1] : n \in 1..Len(delivered)}

\* The slice indices whose result some worker has pushed (its put has
\* returned): it is on its way to the caller or with it, or it was lost with
\* the buffer of a killed worker
PushedIndices == ArrivingIndices \cup BufferedIndices(WorkerStates)

\* C16, as claimed: a worker returns only when the work queue is empty (it
\* has seen it empty for the timeout of its get) and the result queue is
\* empty, none of the results put being still in it, its own included; and
\* the result of every slice index it pulled has been pushed by then (it pulls
\* the next index only after the push of the last one).
C16_WorkerExitsOnlyWhenDrained ==
    /\ [][(ExitedCount' > ExitedCount)
              => (slice_id_queue = <<>> /\ PutNotGot(Gen(0)) = 0)]_vars
    /\ [](\A w \in WorkerStates :
              (w.pc \in {"get", "drain", "exited"} /\ w.slice_id # NoSlice)
                  => w.slice_id \in PushedIndices)

\* The slice indices a worker had pulled when it died computing them, of an
\* exception or killed
LostSlices ==
    {w.slice_id : w \in {v \in WorkerStates :
                            v.pc \in {"crashed", "killed"} /\ v.slice_id # NoSlice}}

\* The slice indices whose result was in the buffer of a worker when it was
\* killed: put, and never written to the pipe
UnwrittenSlices == BufferedIndices({w \in WorkerStates : w.pc = "killed"})

\* C17: once a worker has died between pulling slice index k and pushing its
\* result, no result for k is ever pushed (no other worker computes it), the
\* caller's __next__ for slice k cannot return, no slice with index k or
\* more has been or will be delivered or asked for beyond k, and
\* StopIteration is not raised.  The same holds of a slice whose result a
\* worker had put and not yet written to the pipe when it was killed, except
\* that its result has been pushed: it never gets to the caller.
C17_LostSliceStallsIteration ==
    /\ \A k \in LostSlices : k \notin PushedIndices
    /\ \A k \in LostSlices \cup UnwrittenSlices :
          /\ k \notin ArrivingIndices
          /\ \A w \in WorkerStates : w.pc = "compute" => w.slice_id # k
          /\ \A n \in 1..Len(slice_id_queue) : slice_id_queue[n] # k
          /\ \A n \in 1..Len(delivered) : delivered[n][1] < k
          /\ (cpc = "next" /\ this_slice = k) => ~ENABLED NextReturn
          /\ current_slice <= k + 1
          /\ cpc # "stopped"

\* C17 witness: a worker died with a slice that is not the last, every other
\* worker process has ended, the slices before it are delivered, a later
\* slice waits in finished_slices, and the caller is inside __next__ for the
\* lost slice with nothing left to get.
C17_Witness ==
    \E k \in LostSlices :
        /\ k >= 1
        /\ Len(delivered) = k
        /\ cpc = "next"
        /\ this_slice = k
        /\ (k + 1) \in DOMAIN finished_slices
        /\ result_queue = <<>>
        /\ AllWorkersGone

\* len(self.finished_slices): the results the caller holds
HeldCount == Cardinality(DOMAIN finished_slices)

SelectedKind(atoms, cutoff) ==
    IF UseAseWrapper(atoms, cutoff) THEN "ase" ELSE "asap3"

\* The first probe positions of the iterator's grid, as slice 0 has them
FirstProbes ==
    LET flat_index == FlatIndex(0, probe_count, NumPositions(densitydict.shape))
    IN [i \in 1..Len(flat_index) |->
            GridPosition(UnravelIndex(flat_index[i], densitydict.shape),
                         densitydict.shape, densitydict.atoms.cell_lengths, Origin)]

\* C20 on the path of atoms_to_graph: the list it builds for the iterator's
\* structure is of the kind the rule asks for.
SelectionInAtomsToGraph ==
    atoms_to_graph(densitydict.atoms, TwiceCutoff, querypoint).neighborlist.kind
        = SelectedKind(densitydict.atoms, TwiceCutoff)

\* C20 on the pseudo-atom path of probes_to_graph: the list it builds for the
\* iterator's structure and probes is of the kind the rule asks for.
SelectionInProbesToGraph ==
    PseudoAtomNeighborList(densitydict.atoms, FirstProbes, TwiceCutoff,
                           querypoint).kind
        = SelectedKind(densitydict.atoms, TwiceCutoff)

\* C20 on the path of a worker's startup: the list a worker has built is of
\* the kind the rule asks for.
SelectionInWorkerStartup ==
    \A w \in WorkerStates :
        (w.pc \notin {"created", "start", "crashed", "killed"})
            => w.neighborlist.kind = SelectedKind(densitydict.atoms, TwiceCutoff)

\* C20, as claimed: on each of the three paths that build a neighbour list
\* for a structure, the AseNeigborListWrapper is built when a cell length is
\* at most 1e-4 or the structure is periodic with a cell length below the
\* cutoff, and the asap3 list otherwise.
C20_SelectionRuleOnEveryPath ==
    /\ SelectionInAtomsToGraph
    /\ SelectionInProbesToGraph
    /\ SelectionInWorkerStartup

\* ------------------------------------------------------------ get_slice
\* The samples get_slice is called on: any structure, any grid shape.
SliceSamples == {[atoms |-> a, shape |-> sh] : a \in Structures, sh \in GridShapes}

\* DensityGridIterator.get_slice: static_get_slice on the iterator's fields,
\* with no neighborlist
get_slice(slice_index) ==
    static_get_slice(slice_index, densitydict.atoms, densitydict.shape, probe_count,
                     None, querypoint)

\* A caller that does not iterate calls get_slice(0), get_slice(1), ... up to
\* num_slices - 1; the flat_index the call computed is kept with its result.
GetSlice ==
    /\ Len(slices) < num_slices
    /\ slices' = Append(slices,
            [flat_index |-> FlatIndex(Len(slices), probe_count,
                                      NumPositions(densitydict.shape)),
             res |-> get_slice(Len(slices))])
    /\ UNCHANGED <<gridvars, poolvars, batchvars>>

\* An iterator constructed on any sample, and its slices computed in process
\* (get_slice passes no neighborlist, so the kind of the asap3 build and
\* what a worker's list would miss play no part: one of each is taken).
SlicesInit ==
    /\ GridInit(SliceSamples, {ResultQueueMaxsize}, {TRUE})
    /\ asap3_misses = {}

\* The slices of an iterator computed in process, one after the other
SpecSlices == SlicesInit /\ [][GetSlice]_vars

\* ------------------------------------------------------------ claims: slices
\* C3: slice k covers the flat indices [k*probe_count, min((k+1)*probe_count,
\* nx*ny*nz)); every slice is non-empty and reports its range's length as
\* num_probes; and the ranges of the num_slices slices, concatenated in order,
\* are 0..nx*ny*nz-1 exactly.
C3_SlicesPartitionGrid ==
    LET total_points == NumPositions(densitydict.shape)
        ranges == [k \in 1..Len(slices) |-> slices[k].flat_index]
    IN /\ \A k \in 1..Len(slices) :
             /\ ranges[k] = Arange((k - 1) * probe_count,
                                   Min(k * probe_count, total_points))
             /\ ranges[k] # <<>>
             /\ slices[k].res.num_probes = Len(ranges[k])
       /\ Len(slices) = num_slices => Concatenate(ranges) = Arange(0, total_points)

\* C3 witness: all slices of a grid with more than one point along each axis
\* have been computed, they are at least two, and the last one is shorter than
\* probe_count.
C3_Witness ==
    /\ slices # <<>>
    /\ Len(slices) = num_slices
    /\ num_slices >= 2
    /\ \A a \in 1..3 : densitydict.shape[a] >= 2
    /\ NumPositions(densitydict.shape) % probe_count # 0

\* ------------------------------------------------------------ claims: iterator and get_slice
\* The tensors delivered hold the values of the result res: the same probe
\* edges and features, row by row, and the same two counts
SameValues(tensors, res) ==
    /\ tensors.probe_edges.shape = res.probe_edges.shape
    /\ tensors.probe_edges.data = res.probe_edges.data
    /\ tensors.probe_edges_features.shape = res.probe_edges_features.shape
    /\ tensors.probe_edges_features.data = res.probe_edges_features.data
    /\ tensors.num_probe_edges.data = res.num_probe_edges
    /\ tensors.num_probes.data = res.num_probes

Occurrences(s, x) == Cardinality({n \in 1..Len(s) : s[n] = x})

\* The number of running workers that hold index k pulled and its result
\* not pushed: they compute it
HeldByWorkers(k) ==
    BagCardinality([w \in {v \in WorkerStates : v.pc = "compute" /\ v.slice_id = k}
                       |-> workers[w]])

\* The number of results for index k in the buffers of the workers ws
RECURSIVE BufferedOf(_, _)
BufferedOf(k, ws) ==
    IF ws = {} THEN 0
    ELSE LET w == CHOOSE w \in ws : TRUE
         IN workers[w] * Occurrences([n \in 1..Len(w.buffer) |-> w.buffer[n][1]], k)
                + BufferedOf(k, ws \ {w})

\* Some worker of the iteration may still pull an index: it has not left
\* its loop or died, and the read lock of the work queue is not lost
SomeWorkerPulls ==
    /\ ~ReadLockLost(Gen(0))
    /\ \E w \in WorkerStates : w.pc \in {"created", "start", "get", "compute"}

\* The number of places index k is at on its way to the caller: on the work
\* queue with a worker left to pull it, with a running worker that computes
\* it, in the buffer of a worker whose feeder thread can still write it, in
\* the pipe of the result queue, in finished_slices, delivered.  An index
\* that is with a dead worker, in the buffer of a killed one, behind a lost
\* lock or on a work queue nobody reads any more is at none of them.
PlacesOf(k) ==
    (IF SomeWorkerPulls THEN Occurrences(slice_id_queue, k) ELSE 0)
        + HeldByWorkers(k)
        + (IF WriteLockLost(Gen(0)) THEN 0
           ELSE BufferedOf(k, {w \in WorkerStates : w.pc # "killed"}))
        + Occurrences([n \in 1..Len(result_queue) |-> result_queue[n][1]], k)
        + (IF k \in DOMAIN finished_slices THEN 1 ELSE 0)
        + Occurrences([n \in 1..Len(delivered) |-> delivered[n][1]], k)

\* C23, as claimed: a call of __iter__ puts every index 0..num_slices-1 on the
\* work queue and only then starts its workers, one by one; from then on in
\* this iteration every index is at exactly one place on its way to the
\* caller (on the work queue, with the one worker that pulled it, in the
\* result queue, in finished_slices, or delivered), so that none is pulled,
\* computed, pushed or delivered twice and none is dropped; and when
\* StopIteration is raised every index has been delivered, once, and the
\* work queue, the result queue and finished_slices are empty.
C23_EveryIndexExactlyOnce ==
    /\ [][(iters' # iters)
              => /\ slice_id_queue' = Arange(0, num_slices)
                 /\ \A w \in BagToSet(workers') : w.pc = "created"]_vars
    /\ [](cpc = "new" => workers = EmptyBag)
    /\ [](cpc # "new" => \A k \in 0..(num_slices - 1) : PlacesOf(k) = 1)
    /\ [](\A k \in DOMAIN finished_slices : k \in 0..(num_slices - 1))
    /\ [](cpc = "stopped"
             => /\ slice_id_queue = <<>>
                /\ PutNotGot(Gen(0)) = 0
                /\ finished_slices = <<>>
                /\ [n \in 1..Len(delivered) |-> delivered[n][1]]
                       = Arange(0, num_slices))

\* ------------------------------------------------------------ the rotating pool
\* parent_data[index]: the sample of one dataset entry, its structure and its
\* density both read from the entry named by index
Sample(index) == [atoms |-> index, density |-> index]

\* (a variant of rng_permutation: n draws from 0..n-1 with replacement)
rng_draws(n) == [1..n -> 0..(n - 1)]

\* rng.permutation(n): the orderings of 0..n-1
rng_permutation(n) ==
    {p \in [1..n -> 0..(n - 1)] : \A i, j \in 1..n : p[i] = p[j] => i = j}

\* (a variant of StoreItem: the item is added at the end of the list)
AppendItem(datalist, index, item) == Append(datalist, item)

\* (a variant of StoreItem: the slot's sample is overwritten in place, field
\* by field, and the step ends with the first field copied)
CopyIntoItem(datalist, index, item) ==
    [datalist EXCEPT ![index + 1].atoms = item.atoms]

\* datalist[index] = item: the slot's reference is replaced in one store
StoreItem(datalist, index, item) == [datalist EXCEPT ![index + 1] = item]

\* (a variant of NextSlot: the loop variable stays where it is)
SameSlot(index, length) == index

\* transfer_thread, lines 32-33: the next index of range(len(datalist)), or,
\* the range run out, index 0 of a new range
NextSlot(index, length) == IF index + 1 < length THEN index + 1 ELSE 0

\* (a variant of QueueFull: a queue with no place at all)
QueueAlwaysFull(queue) == TRUE

\* (a variant of QueueFull: a queue made without maxsize is never full)
QueueNeverFull(queue) == FALSE

\* multiprocessing.Queue(LoaderQueueMaxsize): put blocks while as many items
\* have been put and not yet got
QueueFull(queue) == Len(queue) >= LoaderQueueMaxsize

\* RotatingPoolData.__init__: the pool is filled with the items at pool_size
\* indices drawn by rng.integers(0, len(parent_data)), the loader queue made,
\* the loader process and the transfer thread started.  records says whether
\* the pushes and the slot writes are logged.
PoolInit(records) ==
    /\ parent_len \in 1..MaxParentLen
    /\ pool_size \in 1..MaxPoolSize
    /\ data_pool \in [1..pool_size -> {Sample(i) : i \in 0..(parent_len - 1)}]
    /\ loader_queue = <<>>
    /\ permutation = <<>>
    /\ held = NoSample
    /\ popped = NoSample
    /\ transfer_index = 0
    /\ item_read = NotCalled
    /\ recording \in records
    /\ pushed = <<>>
    /\ written = <<>>
    /\ reader = NoRead
    /\ GridOff
    /\ querypoint = FALSE
    /\ BatchOff

\* rotating_pool_worker, line 27: the for loop has run out (or not begun);
\* draw the next permutation of the dataset's indices
ProducerPermute ==
    /\ permutation = <<>>
    /\ held = NoSample
    /\ permutation' \in rng_permutation(parent_len)
    /\ UNCHANGED <<parent_len, pool_size, data_pool, loader_queue, held, popped,
                   transfer_index, item_read, recording, pushed, written,
                   reader, gridvars, slices, batchvars>>

\* rotating_pool_worker, line 28, the argument of put: dataset[index] is
\* loaded for the next index of the permutation.  A logged run ends after
\* MaxPushes pushes.
ProducerLoad ==
    /\ permutation # <<>>
    /\ held = NoSample
    /\ recording => Len(pushed) < MaxPushes
    /\ held' = Sample(Head(permutation))
    /\ permutation' = Tail(permutation)
    /\ UNCHANGED <<parent_len, pool_size, data_pool, loader_queue, popped,
                   transfer_index, item_read, recording, pushed, written,
                   reader, gridvars, slices, batchvars>>

\* rotating_pool_worker, line 28: queue.put of the loaded item; put blocks
\* while the queue is full
ProducerPut ==
    /\ held # NoSample
    /\ ~QueueFull(loader_queue)
    /\ loader_queue' = Append(loader_queue, held)
    /\ held' = NoSample
    /\ pushed' = IF recording THEN Append(pushed, held) ELSE pushed
    /\ UNCHANGED <<parent_len, pool_size, data_pool, permutation, popped,
                   transfer_index, item_read, recording, written, reader,
                   gridvars, slices, batchvars>>

\* transfer_thread, line 34, the right-hand side: queue.get(), blocking while
\* the queue is empty
TransferGet ==
    /\ popped = NoSample
    /\ loader_queue # <<>>
    /\ popped' = Head(loader_queue)
    /\ loader_queue' = Tail(loader_queue)
    /\ UNCHANGED <<parent_len, pool_size, data_pool, permutation, held,
                   transfer_index, item_read, recording, pushed, written,
                   reader, gridvars, slices, batchvars>>

\* transfer_thread, lines 33-34: datalist[index] = the item got; then the
\* loop variable moves on
TransferStore ==
    /\ popped # NoSample
    /\ data_pool' = StoreItem(data_pool, transfer_index, popped)
    /\ popped' = NoSample
    /\ transfer_index' = NextSlot(transfer_index, Len(data_pool))
    /\ written' = IF recording
                  THEN Append(written, [slot |-> transfer_index, item |-> popped])
                  ELSE written
    /\ reader' = IF reader # NoRead /\ reader.index = transfer_index
                  THEN [reader EXCEPT !.during = popped]
                  ELSE reader
    /\ UNCHANGED <<parent_len, pool_size, loader_queue, permutation, held,
                   item_read, recording, pushed, gridvars, slices, batchvars>>

\* RotatingPoolData.__getitem__(index), the call begun and ended with no
\* step of the transfer thread in between
GetItem ==
    \E index \in 0..(pool_size - 1) :
        /\ reader = NoRead
        /\ item_read' = [call |-> "__getitem__", raised |-> "",
                         value |-> data_pool[index + 1],
                         before |-> data_pool[index + 1], during |-> NoSample]
        /\ UNCHANGED <<parent_len, pool_size, data_pool, loader_queue, permutation,
                       held, popped, transfer_index, recording, pushed, written,
                       reader, gridvars, slices, batchvars>>

\* RotatingPoolData.__getitem__(index), line 72, begun: self.data_pool and
\* index are loaded; the subscript is yet to be taken (and what an earlier
\* call returned is let go)
ReadBegin ==
    \E index \in 0..(pool_size - 1) :
        /\ reader = NoRead
        /\ reader' = [index |-> index, before |-> data_pool[index + 1],
                      during |-> NoSample]
        /\ item_read' = NotCalled
        /\ UNCHANGED <<parent_len, pool_size, data_pool, loader_queue, permutation,
                       held, popped, transfer_index, recording, pushed, written,
                       gridvars, slices, batchvars>>

\* RotatingPoolData.__getitem__(index), line 72, ended: the subscript is
\* taken, one load of the slot's reference, and returned
ReadEnd ==
    /\ reader # NoRead
    /\ item_read' = [call |-> "__getitem__", raised |-> "",
                     value |-> data_pool[reader.index + 1],
                     before |-> reader.before, during |-> reader.during]
    /\ reader' = NoRead
    /\ UNCHANGED <<parent_len, pool_size, data_pool, loader_queue, permutation,
                   held, popped, transfer_index, recording, pushed, written,
                   gridvars, slices, batchvars>>

\* RotatingPoolData.__len__()
PoolLen ==
    /\ item_read' = [call |-> "__len__", raised |-> "",
                     value |-> pool_size, before |-> NoSample,
                     during |-> NoSample]
    /\ UNCHANGED <<parent_len, pool_size, data_pool, loader_queue, permutation,
                   held, popped, transfer_index, recording, pushed, written,
                   reader, gridvars, slices, batchvars>>

\* The steps of the loader process
Producer == ProducerPermute \/ ProducerLoad \/ ProducerPut

\* The steps of the transfer thread
Transfer == TransferGet \/ TransferStore

PoolNext ==
    \/ ProducerPermute
    \/ ProducerLoad
    \/ ProducerPut
    \/ TransferGet
    \/ TransferStore
    \/ GetItem
    \/ PoolLen

SpecPool == PoolInit({FALSE}) /\ [][PoolNext]_vars

\* The pool when the loader process and the transfer thread are scheduled
\* fairly: neither is held back forever while it can take a step.  A reader
\* changes nothing of the pool and is left out.
SpecPoolFair ==
    /\ PoolInit({FALSE})
    /\ [][ProducerPermute \/ ProducerLoad \/ ProducerPut
              \/ TransferGet \/ TransferStore]_vars
    /\ WF_vars(Producer)
    /\ WF_vars(Transfer)

\* The loader process and the transfer thread with every push and every slot
\* write logged, for the first MaxPushes pushes
SpecPoolTrace ==
    /\ PoolInit({TRUE})
    /\ [][ProducerPermute \/ ProducerLoad \/ ProducerPut
              \/ TransferGet \/ TransferStore]_vars

\* The steps of a reader whose __getitem__ the transfer thread may interrupt
Reader == ReadBegin \/ ReadEnd

\* The loader process, the transfer thread and a reader that keeps calling
\* __getitem__, all three scheduled fairly
SpecPoolReadFair ==
    /\ PoolInit({FALSE})
    /\ [][ProducerPermute \/ ProducerLoad \/ ProducerPut
              \/ TransferGet \/ TransferStore \/ ReadBegin \/ ReadEnd]_vars
    /\ WF_vars(Producer)
    /\ WF_vars(Transfer)
    /\ WF_vars(Reader)

\* ------------------------------------------------------------ claims: rotating pool
\* The dataset indices whose item is in some slot of the pool
InPool == {data_pool[s].atoms : s \in 1..Len(data_pool)}

\* C4: under fair scheduling of the loader process and the transfer thread,
\* every index of the dataset eventually is in some slot of the pool.
C4_EveryIndexReachesPool ==
    \A i \in 0..(MaxParentLen - 1) : (i < parent_len) => <>(i \in InPool)

\* C4 witness: the pool of a dataset longer than the pool holds an index that
\* it can only have got from the loader queue: the producer is in its first
\* permutation, which began with the index now in slot 0, and nothing is
\* queued or in hand.
C4_Witness ==
    /\ parent_len > pool_size
    /\ pool_size >= 2
    /\ Len(permutation) = parent_len - 1
    /\ loader_queue = <<>>
    /\ held = NoSample
    /\ popped = NoSample
    /\ transfer_index = 1
    /\ data_pool[1].atoms \notin {permutation[k] : k \in 1..Len(permutation)}

\* C5: the pool list has pool_size slots in every state, whichever of the
\* loader, the transfer thread and a reader has run, and __len__ returns
\* pool_size.
C5_LenIsPoolSize ==
    /\ Len(data_pool) = pool_size
    /\ DOMAIN data_pool = 1..pool_size
    /\ (item_read # NotCalled /\ item_read.call = "__len__")
           => (item_read.value = pool_size /\ item_read.value = Len(data_pool))

\* C5 witness: __len__ has been called after the transfer thread has written
\* every slot and started over (two items at least were put and none is
\* queued or in hand; the single slot has been written twice or more).
C5_Witness ==
    /\ item_read # NotCalled
    /\ item_read.call = "__len__"
    /\ pool_size = 1
    /\ parent_len = MaxParentLen
    /\ Len(permutation) = 1
    /\ loader_queue = <<>>
    /\ held = NoSample
    /\ popped = NoSample

\* C13: the n-th item the transfer thread got is the n-th item the loader
\* put, and it is written to slot (n - 1) mod pool_size counting n from 1
\* (slot n mod pool_size counting from 0); two writes of one slot are at
\* least pool_size writes apart, so every other slot is written in between.
C13_RoundRobinFifo ==
    /\ Len(written) <= Len(pushed)
    /\ \A n \in 1..Len(written) :
           /\ written[n].item = pushed[n]
           /\ written[n].slot = (n - 1) % pool_size
    /\ \A m, n \in 1..Len(written) :
           (m < n /\ written[m].slot = written[n].slot)
               => {written[k].slot : k \in m..(n - 1)} = 0..(pool_size - 1)

\* C13 witness: a pool of two slots or more has been written all round and
\* slot 0 a second time, the items put being of different dataset entries.
C13_Witness ==
    /\ pool_size >= 2
    /\ Len(written) = pool_size + 1
    /\ written[Len(written)].slot = 0
    /\ written[1].item # written[2].item
    /\ written[Len(written)].item # written[1].item

\* The samples loaded from the dataset and not yet written to a slot: the one
\* the loader holds for its put, the ones queued, and the one the transfer
\* thread has got and not yet stored
InFlight ==
    (IF held # NoSample THEN 1 ELSE 0) + Len(loader_queue)
        + (IF popped # NoSample THEN 1 ELSE 0)

\* C14, as stated: the loader queue holds at most 2 items, the loader cannot
\* complete a put while it holds 2, and the samples loaded and not yet
\* written are never more than 3.
C14_AtMostThreeInFlight ==
    /\ Len(loader_queue) <= LoaderQueueMaxsize
    /\ (Len(loader_queue) = LoaderQueueMaxsize) => ~ENABLED ProducerPut
    /\ InFlight <= LoaderQueueMaxsize + 1

\* C14, amended: the loader queue holds at most 2 items, the loader cannot
\* complete a put while it holds 2, and the samples loaded and not yet
\* written are never more than 4: 2 queued, 1 held by the loader, and 1 the
\* transfer thread has got and not yet stored.
C14_AtMostFourInFlight ==
    /\ Len(loader_queue) <= LoaderQueueMaxsize
    /\ (Len(loader_queue) = LoaderQueueMaxsize) => ~ENABLED ProducerPut
    /\ InFlight <= LoaderQueueMaxsize + 2

\* C14 witness: the queue is full, the loader holds a loaded sample for a
\* put that cannot complete, and the transfer thread has got a sample it has
\* not yet stored.
C14_Witness ==
    /\ Len(loader_queue) = LoaderQueueMaxsize
    /\ held # NoSample
    /\ popped # NoSample
    /\ ~ENABLED ProducerPut

\* C15: the pushes c*N .. c*N+N-1 (N the length of the dataset, counting
\* pushes from 0) carry every dataset index exactly once, and between a push
\* of an index and the next push of the same index lie at most 2N-2 pushes.
C15_EveryCycleIsAPermutation ==
    /\ \A c \in 0..MaxPushes :
           ((c + 1) * parent_len <= Len(pushed))
               => /\ {pushed[c * parent_len + k].atoms : k \in 1..parent_len}
                         = 0..(parent_len - 1)
                  /\ \A j, k \in 1..parent_len :
                         pushed[c * parent_len + j] = pushed[c * parent_len + k]
                             => j = k
    /\ \A m, n \in 1..Len(pushed) :
           (/\ m < n
            /\ pushed[m] = pushed[n]
            /\ \A k \in (m + 1)..(n - 1) : pushed[k] # pushed[m])
               => (n - m - 1) <= 2 * parent_len - 2

\* C15 witness: two whole permutations of a dataset of two entries or more
\* have been pushed, the first push and the last carrying the same index, so
\* that 2N-2 pushes lie between them.
C15_Witness ==
    /\ parent_len >= 2
    /\ Len(pushed) = 2 * parent_len
    /\ pushed[1] = pushed[2 * parent_len]

\* A call of __getitem__ has returned something that is neither the sample
\* its slot held when the call began nor the sample written to the slot
\* during the call
TornRead ==
    /\ item_read # NotCalled
    /\ item_read.call = "__getitem__"
    /\ item_read.value \notin {item_read.before, item_read.during}

\* C19, as stated: a reader that keeps reading while the transfer thread
\* overwrites the slots gets a partially overwritten sample at some time.
C19_TornReadObserved == <>TornRead

\* C19, amended: __getitem__(i) concurrent with the transfer thread's write
\* of slot i returns the whole sample written to slot i during the call, or,
\* no write of slot i falling into the call, the whole sample slot i held
\* when the call began; never a mixture of two samples.
C19_ReadIsOldOrNew ==
    (item_read # NotCalled /\ item_read.call = "__getitem__")
        => /\ item_read.value =
                  IF item_read.during = NoSample THEN item_read.before
                                                 ELSE item_read.during
           /\ \E i \in 0..(parent_len - 1) : item_read.value = Sample(i)

\* C19 witness: a call of __getitem__(i) during which slot i was overwritten
\* with a different sample has returned.
C19_Witness ==
    /\ item_read # NotCalled
    /\ item_read.call = "__getitem__"
    /\ item_read.during # NoSample
    /\ item_read.during # item_read.before
    /\ reader = NoRead

\* The samples of the parent dataset
ParentSamples == {Sample(i) : i \in 0..(parent_len - 1)}

\* C24: from the construction of the pool on (the loader process and the
\* transfer thread not yet having taken a step) and in every state after,
\* every slot 0..pool_size-1 holds a whole sample of the parent dataset, and
\* __getitem__ returns one: never an empty or a missing slot.
C24_SlotsAlwaysFilled ==
    /\ DOMAIN data_pool = 1..pool_size
    /\ \A s \in 1..pool_size : data_pool[s] \in ParentSamples
    /\ (item_read # NotCalled /\ item_read.call = "__getitem__")
           => item_read.value \in ParentSamples

\* C24 witness: __getitem__ has returned while the loader and the transfer
\* thread were at work: a sample is held for a put, the queue is full, the
\* transfer thread has overwritten slot 0 and got the next item.
C24_Witness ==
    /\ item_read # NotCalled
    /\ item_read.call = "__getitem__"
    /\ pool_size >= 2
    /\ transfer_index = 1
    /\ held # NoSample
    /\ popped # NoSample
    /\ Len(loader_queue) = LoaderQueueMaxsize

\* C25: in every reachable state the loader process or the transfer thread
\* can take a step; the loader cannot only while it holds a sample for a put
\* and the queue is full, the transfer thread cannot only while it has nothing
\* in hand and the queue is empty; whether either can step depends on the
\* queue and on what the two have in hand alone, not on any call of a
\* reader.  Neither loop has an exit.
C25_NeverDeadlocked ==
    /\ ENABLED Producer \/ ENABLED Transfer
    /\ (ENABLED Producer) <=> ~(held # NoSample /\ QueueFull(loader_queue))
    /\ (ENABLED Transfer) <=> ~(popped = NoSample /\ loader_queue = <<>>)

\* C25 witness: a reader's __getitem__ has returned in a state where the
\* loader is blocked in its put on the full queue, and the transfer thread
\* can go on.
C25_Witness ==
    /\ item_read # NotCalled
    /\ item_read.call = "__getitem__"
    /\ ~ENABLED Producer
    /\ ENABLED Transfer
    /\ Len(loader_queue) = LoaderQueueMaxsize

\* ------------------------------------------------------------ the collator
\* deepdft.layer.pad_and_stack of the list of one field's tensors.  The
\* function is not among the sources; this is what the specification says
\* of the collation of one field (sections 3 and 4.6): the 0-dimensional
\* tensors of a count field are stacked into one sequence, the tensors of an
\* array field are concatenated along the row axis.
pad_and_stack(tensors) ==
    LET first == tensors[1]
        rows == Concatenate([i \in 1..Len(tensors) |-> tensors[i].data])
    IN IF first.shape = <<>>
       THEN [shape |-> <<Len(tensors)>>,
             data |-> [i \in 1..Len(tensors) |-> tensors[i].data]]
       ELSE [shape |-> <<Len(rows)>> \o Tail(first.shape), data |-> rows]

\* line 411: {k: [dic[k] for dic in list_of_dicts] for k in list_of_dicts[0]}.
\* The keys are those of the first dict; list_of_dicts[0] of an empty list
\* raises IndexError, dic[k] of a dict without k raises KeyError.
DictOfLists(list_of_dicts) ==
    IF list_of_dicts = <<>> THEN Raise("IndexError")
    ELSE IF \E k \in DOMAIN list_of_dicts[1] : \E i \in 1..Len(list_of_dicts) :
                k \notin DOMAIN list_of_dicts[i]
    THEN Raise("KeyError")
    ELSE Return([k \in DOMAIN list_of_dicts[1] |->
                    [i \in 1..Len(list_of_dicts) |-> list_of_dicts[i][k]]])

\* The fields that hold edge indices
EdgeIndexFields == {"atom_edges", "probe_edges"}

RECURSIVE NodesBefore(_, _)
\* The number of nodes of the members before member m (m from 1)
NodesBefore(list_of_dicts, m) ==
    IF m <= 1 THEN 0
    ELSE NodesBefore(list_of_dicts, m - 1) + list_of_dicts[m - 1].num_nodes.data

\* The tensor of edge indices with offset added to every index
OffsetEdges(tensor, offset) ==
    [tensor EXCEPT !.data = [r \in 1..Len(tensor.data) |->
                                [c \in 1..2 |-> tensor.data[r][c] + offset]]]

\* (a variant of collate_list_of_dicts: the members are taken last to first)
collate_reversed(list_of_dicts, pin_memory) ==
    LET dict_of_lists == DictOfLists(list_of_dicts)
    IN IF dict_of_lists.raised # "" THEN dict_of_lists
       ELSE Return([k \in DOMAIN dict_of_lists.value |->
                pad_and_stack([i \in 1..Len(list_of_dicts) |->
                    list_of_dicts[Len(list_of_dicts) + 1 - i][k]])])

\* collate_list_of_dicts: every list of dict_of_lists through pad_and_stack.
\* pin is x.pin_memory() or the identity: the same values either way.
collate_list_of_dicts(list_of_dicts, pin_memory) ==
    LET dict_of_lists == DictOfLists(list_of_dicts)
    IN IF dict_of_lists.raised # "" THEN dict_of_lists
       ELSE Return([k \in DOMAIN dict_of_lists.value |->
                       pad_and_stack(dict_of_lists.value[k])])

\* ------------------------------------------------------------ inputs of the builders
\* n atoms on the x axis, the first at x = start Angstrom, step Angstrom
\* apart, with atomic numbers 1, 2, ..., in a non-periodic cell of the given
\* length per axis
Chain(n, start, step, length) ==
    MakeAtoms([i \in 1..n |-> <<Angstrom(start + step * (i - 1)), 0, 0>>],
              [i \in 1..n |-> i], Cell(length), NoPbc)

\* The structures graphs are built of, in a cell of 2 Angstrom per axis: no
\* atom at all; atoms next to each other and to the grid; atoms further than
\* the cutoff from each other and from the grid.
BatchStructures ==
    {Chain(n, 0, 1, 2) : n \in 0..MaxAtoms}
        \cup {Chain(n, 3, 2, 2) : n \in 1..MaxAtoms}

\* The shape of the density the probes are sampled on: two points along the
\* x axis (at x = 0 and, half a cell vector on, at x = 1 Angstrom for the
\* structures above)
BatchGrid == <<2, 1, 1>>

\* grid_position[...] of the sample with the structure atoms, at the flat
\* indices flat
ProbePositions(flat, atoms) ==
    [i \in 1..Len(flat) |->
        GridPosition(UnravelIndex(flat[i], BatchGrid), BatchGrid,
                     atoms.cell_lengths, Origin)]

\* ------------------------------------------------------------ calling the builders
\* A caller is constructed: it asks for num_probes probes per sample;
\* querypoints are the kinds of asap3 build to consider.
BatchInit(querypoints) ==
    /\ num_probes \in 0..MaxProbes
    /\ querypoint \in querypoints
    /\ last_call = NotCalled
    /\ graphs = <<>>
    /\ collated = NotCalled
    /\ SampleOff
    /\ GridOff
    /\ PoolOff

\* The caller has called a builder on a structure and probe positions
Called(call, atoms, probe_pos, result) ==
    /\ last_call' = [call |-> call, atoms |-> atoms, probe_pos |-> probe_pos,
                     result |-> result]
    /\ UNCHANGED <<num_probes, graphs, collated, samplevars, querypoint, gridvars, slices,
                 poolvars>>

\* atoms_and_probe_sample_to_graph_dict on a structure; probe_choice is what
\* np.random.randint(probe_choice_max, size=num_probes) draws
CallSample ==
    \E atoms \in BatchStructures :
    \E probe_choice \in [1..num_probes -> 0..(NumPositions(BatchGrid) - 1)] :
        Called("atoms_and_probe_sample_to_graph_dict", atoms,
               ProbePositions(probe_choice, atoms),
               atoms_and_probe_sample_to_graph_dict(atoms, BatchGrid, probe_choice,
                                                    querypoint))

\* atoms_to_graph_dict on a structure
CallAtoms ==
    \E atoms \in BatchStructures :
        Called("atoms_to_graph_dict", atoms, <<>>,
               atoms_to_graph_dict(atoms, querypoint))

\* static_get_slice on a structure, with one probe per slice and no
\* neighborlist, for a slice of the grid or the empty slice after the last
CallSlice ==
    \E atoms \in BatchStructures : \E slice_index \in 0..NumPositions(BatchGrid) :
        Called("static_get_slice", atoms,
               ProbePositions(FlatIndex(slice_index, 1, NumPositions(BatchGrid)),
                              atoms),
               Return(static_get_slice(slice_index, atoms, BatchGrid, 1, None,
                                       querypoint)))

\* The cutoffs of the queries: the one the lists are built with, and a
\* smaller one
QueryCutoffs == {TwiceCutoff - 1, TwiceCutoff}

\* probes_to_graph on a structure and probe positions, for some cutoff, with
\* the neighborlist atoms_to_graph(atoms, TwiceCutoff / 2) returned for the
\* structure or with none
CallProbes ==
    \E atoms \in BatchStructures :
    \E probe_choice \in [1..num_probes -> 0..(NumPositions(BatchGrid) - 1)] :
    \E reuse \in BOOLEAN : \E cutoff \in QueryCutoffs :
        LET neighborlist ==
                IF reuse THEN atoms_to_graph(atoms, TwiceCutoff, querypoint).neighborlist
                ELSE None
        IN /\ last_call' =
                 [call |-> "probes_to_graph", atoms |-> atoms,
                  probe_pos |-> ProbePositions(probe_choice, atoms),
                  cutoff |-> cutoff,
                  neighborlist |-> neighborlist,
                  result |-> Return(probes_to_graph(atoms,
                                        ProbePositions(probe_choice, atoms),
                                        cutoff, neighborlist, querypoint))]
           /\ UNCHANGED <<num_probes, graphs, collated, samplevars, querypoint,
                          gridvars, slices, poolvars>>

\* The structures with a degenerate cell, for which atoms_to_graph hands back
\* an AseNeigborListWrapper
WrapperStructures == {atoms \in Structures : UseAseWrapper(atoms, TwiceCutoff)}

\* get_neighbors(i, cutoff), for some cutoff, on the AseNeigborListWrapper
\* that atoms_to_graph(atoms, TwiceCutoff / 2) returned
CallGetNeighbors ==
    \E atoms \in WrapperStructures : \E i \in 0..(Len(atoms.positions) - 1) :
    \E cutoff \in QueryCutoffs :
        LET neighborlist == atoms_to_graph(atoms, TwiceCutoff, querypoint).neighborlist
        IN /\ last_call' =
                 [call |-> "get_neighbors", atoms |-> atoms, probe_pos |-> <<>>,
                  cutoff |-> cutoff, neighborlist |-> neighborlist,
                  result |-> AseNeigborListWrapper_get_neighbors(neighborlist, i, cutoff)]
           /\ UNCHANGED <<num_probes, graphs, collated, samplevars, querypoint,
                          gridvars, slices, poolvars>>

SpecBuilders ==
    /\ BatchInit(BOOLEAN)
    /\ [][CallSample \/ CallAtoms \/ CallSlice \/ CallProbes \/ CallGetNeighbors]_vars

\* ------------------------------------------------------------ collating
\* graphs.append(graph) of the collate functions, for a graph a builder
\* returned
GraphsAppend(result) ==
    /\ collated = NotCalled
    /\ Len(graphs) < MaxBatch
    /\ result.raised = ""
    /\ graphs' = Append(graphs, result.value)
    /\ UNCHANGED <<num_probes, last_call, collated, samplevars, querypoint, gridvars,
                 slices, poolvars>>

\* CollateFuncRandomSample.__call__, lines 431-444: the graph of the next
\* input is appended
AppendSample ==
    \E atoms \in BatchStructures :
    \E probe_choice \in [1..num_probes -> 0..(NumPositions(BatchGrid) - 1)] :
        GraphsAppend(atoms_and_probe_sample_to_graph_dict(atoms, BatchGrid,
                                                          probe_choice, querypoint))

\* CollateFuncAtoms.__call__, lines 455-466: the graph of the next input is
\* appended
AppendAtoms ==
    \E atoms \in BatchStructures :
        GraphsAppend(atoms_to_graph_dict(atoms, querypoint))

\* collate_list_of_dicts on the graphs collected
Collate ==
    /\ collated = NotCalled
    /\ \E pin_memory \in BOOLEAN :
          collated' = collate_list_of_dicts(graphs, pin_memory)
    /\ UNCHANGED <<num_probes, last_call, graphs, samplevars, querypoint, gridvars,
                 slices, poolvars>>

BatchNext == AppendSample \/ AppendAtoms \/ Collate

\* The builders return the same graph with either kind of asap3 build (the
\* probes' neighbours are found by a query or as pseudo-atoms): one kind is
\* taken for the graphs that are collated.
SpecBatch == BatchInit({TRUE}) /\ [][BatchNext]_vars

\* ------------------------------------------------------------ claims: collator
\* The batch collate_list_of_dicts returned
Batch == collated.value

\* The number of graphs collated
BatchLen == Len(graphs)

\* The edge-index fields of the batch
BatchEdgeFields == EdgeIndexFields \cap DOMAIN Batch

\* C6, as claimed: each edge-index field of the batch is the concatenation,
\* member after member, of the members' edge rows with every index of member
\* m increased by the number of nodes of the members before it.
C6_EdgeIndicesOffset ==
    collated.raised = "" =>
        \A f \in BatchEdgeFields :
            Batch[f].data =
                Concatenate([m \in 1..BatchLen |->
                    OffsetEdges(graphs[m][f], NodesBefore(graphs, m)).data])

\* The array fields of a graph and the count field that holds the number of
\* rows of each
CountOf ==
    [nodes |-> "num_nodes", atom_edges |-> "num_atom_edges",
     atom_edges_features |-> "num_atom_edges", probe_edges |-> "num_probe_edges",
     probe_edges_features |-> "num_probe_edges", probe_target |-> "num_probes"]

CountFields == {CountOf[f] : f \in DOMAIN CountOf}

RECURSIVE RowsBefore(_, _)
\* The sum of the first m - 1 counts of the batch's count field
RowsBefore(counts, m) ==
    IF m <= 1 THEN 0 ELSE RowsBefore(counts, m - 1) + counts.data[m - 1]

\* Piece m of a batch field, cut out with the stored counts: the rows after
\* those of the members before m, as many as the m-th count says
Split(tensor, counts, m) ==
    [shape |-> <<counts.data[m]>> \o Tail(tensor.shape),
     data |-> SubSeq(tensor.data, RowsBefore(counts, m) + 1,
                     RowsBefore(counts, m) + counts.data[m])]

C8_CollateFailsFast ==
    (/\ collated # NotCalled
     /\ \E i, j \in 1..BatchLen : DOMAIN graphs[i] # DOMAIN graphs[j])
        => collated.raised # ""

\* ------------------------------------------------------------ claims: builders
\* No two atoms of the structure are within the cutoff of each other (so with
\* no atom at all)
NoAtomEdges(atoms) ==
    \A i, j \in 1..Len(atoms.positions) :
        i # j => ~WithinCutoff(atoms.positions[i], atoms.positions[j])

\* No probe is within the cutoff of an atom (so with no probe at all)
NoProbeEdges(atoms, probe_pos) ==
    \A p \in 1..Len(probe_pos) : \A a \in 1..Len(atoms.positions) :
        ~WithinCutoff(probe_pos[p], atoms.positions[a])

\* C10, as claimed: a builder called on a structure without atom edges (or
\* with probes without probe edges) returns, without raising, a graph whose
\* edge field is a (0, 2) array, whose feature field is a (0, 1) array and
\* whose count is 0.
C10_EmptyEdgeSetsGivePlaceholders ==
    last_call # NotCalled =>
        LET r == last_call.result
            count(c) == IF last_call.call = "static_get_slice" THEN c ELSE c.data
        IN /\ (/\ last_call.call \in {"atoms_and_probe_sample_to_graph_dict",
                                       "atoms_to_graph_dict"}
                /\ NoAtomEdges(last_call.atoms))
                  => /\ r.raised = ""
                     /\ r.value.atom_edges.shape = <<0, 2>>
                     /\ r.value.atom_edges_features.shape = <<0, 1>>
                     /\ count(r.value.num_atom_edges) = 0
           /\ (/\ last_call.call \in {"atoms_and_probe_sample_to_graph_dict",
                                       "static_get_slice"}
                /\ NoProbeEdges(last_call.atoms, last_call.probe_pos))
                  => /\ r.raised = ""
                     /\ r.value.probe_edges.shape = <<0, 2>>
                     /\ r.value.probe_edges_features.shape = <<0, 1>>
                     /\ count(r.value.num_probe_edges) = 0

\* C11: every edge probes_to_graph returns for probe i (from 0) is (source, i)
\* with source the index of an atom, 0..A-1, and i the probe's own index in
\* the probe set, 0..M-1, not offset by A: there is one array of edges per
\* probe and no edge has a probe as its source, with the neighbours found by
\* a point query or as pseudo-atoms.
C11_ProbeEdgesAtomToProbe ==
    (last_call # NotCalled /\ last_call.call = "probes_to_graph") =>
        LET A == Len(last_call.atoms.positions)
            M == Len(last_call.probe_pos)
            probe_edges == last_call.result.value.probe_edges
        IN /\ Len(probe_edges) = M
           /\ Len(last_call.result.value.probe_edges_features) = M
           /\ \A p \in 1..Len(probe_edges) :
                 /\ Len(last_call.result.value.probe_edges_features[p])
                        = Len(probe_edges[p])
                 /\ \A e \in 1..Len(probe_edges[p]) :
                       /\ probe_edges[p][e][1] \in 0..(A - 1)
                       /\ probe_edges[p][e][2] = p - 1
                       /\ probe_edges[p][e][2] \in 0..(M - 1)

\* C11 witness: probes_to_graph has been called without a point query (the
\* probes were inserted as pseudo-atoms) on a structure with atoms and two
\* probes that are within the cutoff of each other, and it returned an edge
\* for the second probe.
C11_Witness ==
    /\ last_call # NotCalled
    /\ last_call.call = "probes_to_graph"
    /\ ~last_call.neighborlist.querypoint
    /\ Len(last_call.atoms.positions) >= 1
    /\ Len(last_call.probe_pos) = 2
    /\ last_call.probe_pos[1] # last_call.probe_pos[2]
    /\ WithinCutoff(last_call.probe_pos[1], last_call.probe_pos[2])
    /\ last_call.result.value.probe_edges[2] # <<>>

\* C12, as claimed: a query on a neighbour list that atoms_to_graph handed
\* back (get_neighbors on the wrapper, or the point query probes_to_graph
\* makes on a list that offers it) with a cutoff other than the one the list
\* was built with raises.
C12_CutoffMismatchIsFatal ==
    (/\ last_call # NotCalled
     /\ last_call.call \in {"get_neighbors", "probes_to_graph"}
     /\ \/ last_call.call = "get_neighbors"
        \/ last_call.neighborlist.querypoint /\ last_call.probe_pos # <<>>
     /\ last_call.cutoff # last_call.neighborlist.cutoff)
        => last_call.result.raised # ""

\* ------------------------------------------------------------ the stored sample
\* Structures are objects: heap is the sequence of the ase.Atoms objects
\* alive during a call, an object being named by its place in it.  The
\* structure of the sample, i["atoms"] or densitydict["atoms"], is object 1.
SampleRef == 1

AllPbc == <<TRUE, TRUE, TRUE>>

\* The structures of the samples: the chains the graphs are built of, in a
\* cell of 10 Angstrom per axis (no periodic image of an atom or a grid point
\* is within the cutoff of another), periodic on no axis or on all
SampleStructures ==
    {[atoms EXCEPT !.pbc = pbc] :
        atoms \in {Chain(n, 0, 1, 10) : n \in 0..MaxAtoms}
                      \cup {Chain(n, 3, 2, 10) : n \in 1..MaxAtoms},
        pbc \in {NoPbc, AllPbc}}

\* (a variant of AtomsCopy: the same object is handed back)
AtomsAlias(heap, ref) == [heap |-> heap, ref |-> ref]

\* atoms.copy(): a new object with the fields of object ref
AtomsCopy(heap, ref) == [heap |-> Append(heap, heap[ref]), ref |-> Len(heap) + 1]

\* atoms.set_pbc(pbc) on object ref
set_pbc(heap, ref, pbc) == [heap EXCEPT ![ref].pbc = <<pbc, pbc, pbc>>]

\* atoms_with_probes.extend(probe_atoms) on object ref: the pseudo-atoms of
\* the probes are added to the object
extend(heap, ref, probe_pos) ==
    [heap EXCEPT ![ref] = AtomsWithProbes(heap[ref], probe_pos)]

\* The override of the collate functions (disable_pbc) and of
\* DensityGridIterator.__init__ (ignore_pbc): the object the graphs are built
\* of is a copy of object ref with its flags cleared, or object ref itself
OverridePbc(heap, ref, disable_pbc) ==
    IF disable_pbc
    THEN LET c == AtomsCopy(heap, ref)
         IN [heap |-> set_pbc(c.heap, c.ref, FALSE), ref |-> c.ref]
    ELSE [heap |-> heap, ref |-> ref]

\* What probes_to_graph does to the objects, lines 375-384: nothing when the
\* neighborlist answers get_neighbors_querypoint, else a copy of object ref
\* is made and extended with the pseudo-atoms
probes_to_graph_objects(heap, ref, probe_pos, neighborlist) ==
    IF neighborlist.querypoint THEN heap
    ELSE LET c == AtomsCopy(heap, ref)
         IN extend(c.heap, c.ref, probe_pos)

\* A sample is loaded and a caller of the collate functions constructed
SampleInit ==
    /\ loaded \in SampleStructures
    /\ stored = loaded
    /\ sample_call = NotCalled
    /\ num_probes \in 0..MaxProbes
    /\ querypoint \in BOOLEAN
    /\ last_call = NotCalled
    /\ graphs = <<>>
    /\ collated = NotCalled
    /\ GridOff
    /\ PoolOff

\* The call is over: its outcome is kept, and the sample holds object 1 as
\* the call left it
SampleCalled(call, disable_pbc, atoms, probe_pos, heap, result) ==
    /\ sample_call' = [call |-> call, disable_pbc |-> disable_pbc, atoms |-> atoms,
                       probe_pos |-> probe_pos, objects |-> Len(heap),
                       result |-> result]
    /\ stored' = heap[SampleRef]
    /\ UNCHANGED <<loaded, num_probes, last_call, graphs, collated, querypoint,
                   gridvars, slices, poolvars>>

\* CollateFuncRandomSample.__call__ on the one sample
CollateRandomSample ==
    \E disable_pbc \in BOOLEAN : \E pin_memory \in BOOLEAN :
    \E probe_choice \in [1..num_probes -> 0..(NumPositions(BatchGrid) - 1)] :
        LET o == OverridePbc(<<stored>>, SampleRef, disable_pbc)
            atoms == o.heap[o.ref]
            neighborlist == atoms_to_graph(atoms, TwiceCutoff, querypoint).neighborlist
            heap == probes_to_graph_objects(o.heap, o.ref,
                                            ProbePositions(probe_choice, atoms),
                                            neighborlist)
            graph == atoms_and_probe_sample_to_graph_dict(atoms, BatchGrid,
                                                          probe_choice, querypoint)
        IN SampleCalled("CollateFuncRandomSample", disable_pbc, atoms,
                        ProbePositions(probe_choice, atoms), heap,
                        IF graph.raised # "" THEN graph
                        ELSE collate_list_of_dicts(<<graph.value>>, pin_memory))

\* CollateFuncAtoms.__call__ on the one sample
CollateAtoms ==
    \E disable_pbc \in BOOLEAN : \E pin_memory \in BOOLEAN :
        LET o == OverridePbc(<<stored>>, SampleRef, disable_pbc)
            atoms == o.heap[o.ref]
            graph == atoms_to_graph_dict(atoms, querypoint)
        IN SampleCalled("CollateFuncAtoms", disable_pbc, atoms, <<>>, o.heap,
                        IF graph.raised # "" THEN graph
                        ELSE collate_list_of_dicts(<<graph.value>>, pin_memory))

\* DensityGridIterator(sample, ignore_pbc, probe_count, cutoff).get_slice of
\* a slice of the grid
IteratorSlice ==
    \E ignore_pbc \in BOOLEAN : \E count \in 1..MaxProbeCount :
    \E slice_index \in 0..(CeilDiv(NumPositions(BatchGrid), count) - 1) :
        LET o == OverridePbc(<<stored>>, SampleRef, ignore_pbc)
            atoms == o.heap[o.ref]
            probe_pos == ProbePositions(FlatIndex(slice_index, count,
                                                  NumPositions(BatchGrid)), atoms)
            heap == probes_to_graph_objects(o.heap, o.ref, probe_pos, None)
        IN SampleCalled("DensityGridIterator.get_slice", ignore_pbc, atoms,
                        probe_pos, heap,
                        Return(static_get_slice(slice_index, atoms, BatchGrid, count,
                                                None, querypoint)))

SpecSample ==
    /\ SampleInit
    /\ [][CollateRandomSample \/ CollateAtoms \/ IteratorSlice]_vars

\* ------------------------------------------------------------ claims: stored sample
\* C22: after any sequence of collate and get_slice calls the structure the
\* sample holds is the structure that was loaded: the same atoms, cell and
\* periodicity flags.  With the override set, the graph was built of a
\* structure that differs from it in the flags only, which are cleared.
C22_SampleIsNeverModified ==
    /\ stored = loaded
    /\ (sample_call # NotCalled)
           => sample_call.atoms =
                  IF sample_call.disable_pbc THEN [loaded EXCEPT !.pbc = NoPbc]
                  ELSE loaded

\* C22 witness: a periodic sample with atoms has gone through
\* CollateFuncRandomSample with the override set and with an asap3 build
\* that has no get_neighbors_querypoint: the flags were cleared on a copy and
\* pseudo-atoms of one probe or more appended to a second copy.
C22_Witness ==
    /\ sample_call # NotCalled
    /\ sample_call.call = "CollateFuncRandomSample"
    /\ sample_call.disable_pbc
    /\ sample_call.objects >= 3
    /\ sample_call.probe_pos # <<>>
    /\ loaded.pbc = AllPbc
    /\ loaded.positions # <<>>
    /\ stored = loaded

====
